---------------------------- MODULE Spec2Model ----------------------------
(***************************************************************************)
(* A model of domcorder's frame codec (proto-rs), asset cache and recording *)
(* ingest pipeline (server).  Bytes are naturals 0..255; strings and byte   *)
(* buffers are sequences of bytes; an Option<T> is <<>> or <<t>>.           *)
(***************************************************************************)
EXTENDS Integers, Sequences, FiniteSets, TLC

VARIABLES
    phase,      \* codec scenario: "writing", "reading", "rereading"; else "ingest"
    writer,     \* FrameWriter: [sink, header_written]
    wLog,       \* the calls made on the writer: [op, res, len, frame]
    reader,     \* FrameReader: [source, end, buffer]
    rStream,    \* the bytes the reader's source was opened on
    rPc,        \* position inside read_frame: idle | parse | read | done
    rOut,       \* the frames read_frame has returned so far
    rLast,      \* the last result of read_frame: none_yet | frame | none | err
    rSplit,     \* some parse attempt met a frame that was only partly buffered
    blobs,      \* AssetFileStore: the hashes that have a blob
    tmpFiles,   \* AssetFileStore: the temporary files of puts under way
    assets,     \* MetadataStore: the rows of table assets
    siteAssets, \* MetadataStore: the rows of table site_assets
    dir,        \* the recordings directory: entries [name, inode]
    active,     \* StorageState.active_recordings: the tracking paths
    ing,        \* per ingest: the locals of save_recording_stream_frames_only_with_site_and_path
    sgReturns,  \* what the calls of store_or_get_asset_metadata returned: [sha, res],
                \* res = <<random_id>> for Ok, <<>> for Err
    tail,       \* the reader of get_recording_stream: a TailingReader or a plain file
    ws,         \* the locals of handle_websocket_recording, and what the socket carried
    recordings, \* MetadataStore: the rows of table recordings
    manifest    \* what the last call of generate_manifest returned, for the stores as they are

codecVars == <<phase, writer, wLog, reader, rStream, rPc, rOut, rLast, rSplit>>

serverVars ==
    <<blobs, tmpFiles, assets, siteAssets, dir, active, ing, sgReturns, tail, ws, recordings,
      manifest>>

vars == <<codecVars, serverVars>>

(***************************************************************************)
(* Bounds of the model.                                                    *)
(***************************************************************************)
MaxWriterCalls == 2

MaxCut == 2

MaxIngestCut == 1

(***************************************************************************)
(* Sequence helpers.                                                       *)
(***************************************************************************)
Take(s, n) == SubSeq(s, 1, IF n < Len(s) THEN n ELSE Len(s))

Drop(s, n) == SubSeq(s, n + 1, Len(s))

Min(a, b) == IF a < b THEN a ELSE b

Zeros(n) == [i \in 1..n |-> 0]

\* F(x), with x evaluated once.
Bind(x, F(_)) == CHOOSE y \in {F(v) : v \in {x}} : TRUE

(***************************************************************************)
(* Fixed-width big-endian integers (bincode with_big_endian +              *)
(* with_fixint_encoding).  Values of the model stay below 2^31.            *)
(***************************************************************************)
U32BE(n) == << (n \div 16777216) % 256, (n \div 65536) % 256, (n \div 256) % 256, n % 256 >>

U64BE(n) == <<0, 0, 0, 0>> \o U32BE(n)

(***************************************************************************)
(* frame.rs: the types of the protocol.  A type is a tuple: <<"u32">>,     *)
(* <<"u64">>, <<"bool">>, <<"str">> (String), <<"bytes">> (Vec<u8>),       *)
(* <<"opt", t>>, <<"vec", t>>, <<"pair", t1, t2>>, <<"struct", name>>,     *)
(* <<"enum", name>>.  A struct is its fields in order; an enum is its      *)
(* variants in order (the variant index is the position, from 0), each     *)
(* with the fields of its payload.  A struct value is a record; an enum    *)
(* value is a record of the payload's fields and `type`, the variant.      *)
(***************************************************************************)
TU32 == <<"u32">>

TStr == <<"str">>

TOptStr == <<"opt", TStr>>

Structs ==
    [ VStyleSheet |-> << <<"id", TU32>>, <<"text", TStr>>, <<"media", TOptStr>> >>,
      HtmlDocument |-> << <<"id", TU32>>,
                          <<"adopted_style_sheets", <<"vec", <<"struct", "VStyleSheet">> >> >>,
                          <<"children", <<"vec", <<"enum", "DomNode">> >> >> >> ]

DomNodeVariants ==
    << <<"Element", << <<"id", TU32>>, <<"tag_name", TStr>>,
                       <<"attributes", <<"vec", <<"pair", TStr, TStr>> >> >>,
                       <<"children", <<"vec", <<"enum", "DomNode">> >> >> >> >>,
       <<"Text", << <<"id", TU32>>, <<"content", TStr>> >> >>,
       <<"CData", << <<"id", TU32>>, <<"content", TStr>> >> >>,
       <<"Comment", << <<"id", TU32>>, <<"content", TStr>> >> >>,
       <<"DocType", << <<"id", TU32>>, <<"name", TStr>>, <<"public_id", TOptStr>>,
                       <<"system_id", TOptStr>> >> >>,
       <<"ProcessingInstruction", << <<"id", TU32>>, <<"target", TStr>>, <<"data", TStr>> >> >> >>

TextOperationDataVariants ==
    << <<"Insert", << <<"index", TU32>>, <<"text", TStr>> >> >>,
       <<"Remove", << <<"index", TU32>>, <<"length", TU32>> >> >> >>

\* AssetData.fetch_error (storage.rs reads it; its declaration is not in frame.rs).
AssetFetchErrorVariants ==
    << <<"None", << >> >>, <<"CORS", << >> >>, <<"Network", << >> >>, <<"Http", << >> >>,
       <<"Unknown", << <<"msg", TStr>> >> >> >>

Unmodelled == << <<"payload", <<"unmodelled">> >> >>

\* Frame: variants 0..22 as frame.rs declares them; storage.rs also matches on
\* AssetReference and Heartbeat, placed after the other variants the
\* specification lists (23..30, whose payloads are not modelled, but for
\* RecordingMetadata, whose initial_url recording_handler.rs reads).
FrameVariants ==
    << <<"Timestamp", << <<"timestamp", <<"u64">> >> >> >>,
       <<"Keyframe", << <<"document", <<"struct", "HtmlDocument">> >>,
                        <<"asset_count", TU32>> >> >>,
       <<"ViewportResized", << <<"width", TU32>>, <<"height", TU32>> >> >>,
       <<"ScrollOffsetChanged", << <<"scroll_x_offset", TU32>>, <<"scroll_y_offset", TU32>> >> >>,
       <<"MouseMoved", << <<"x", TU32>>, <<"y", TU32>> >> >>,
       <<"MouseClicked", << <<"x", TU32>>, <<"y", TU32>> >> >>,
       <<"KeyPressed", << <<"code", TStr>>, <<"alt_key", <<"bool">> >>,
                          <<"ctrl_key", <<"bool">> >>, <<"meta_key", <<"bool">> >>,
                          <<"shift_key", <<"bool">> >> >> >>,
       <<"ElementFocused", << <<"node_id", TU32>> >> >>,
       <<"TextSelectionChanged", << <<"selection_start_node_id", TU32>>,
                                    <<"selection_start_offset", TU32>>,
                                    <<"selection_end_node_id", TU32>>,
                                    <<"selection_end_offset", TU32>> >> >>,
       <<"DomNodeAdded", << <<"parent_node_id", TU32>>, <<"index", TU32>>,
                            <<"node", <<"enum", "DomNode">> >>, <<"asset_count", TU32>> >> >>,
       <<"DomNodeRemoved", << <<"node_id", TU32>> >> >>,
       <<"DomAttributeChanged", << <<"node_id", TU32>>, <<"attribute_name", TStr>>,
                                   <<"attribute_value", TStr>> >> >>,
       <<"DomAttributeRemoved", << <<"node_id", TU32>>, <<"attribute_name", TStr>> >> >>,
       <<"DomTextChanged", << <<"node_id", TU32>>,
                              <<"operations", <<"vec", <<"enum", "TextOperationData">> >> >> >> >>,
       <<"DomNodeResized", << <<"node_id", TU32>>, <<"width", TU32>>, <<"height", TU32>> >> >>,
       <<"StyleSheetChanged", << >> >>,
       <<"Asset", << <<"asset_id", TU32>>, <<"url", TStr>>, <<"mime", TOptStr>>,
                     <<"buf", <<"bytes">> >>,
                     <<"fetch_error", <<"enum", "AssetFetchError">> >> >> >>,
       <<"AdoptedStyleSheetsChanged", << <<"style_sheet_ids", <<"vec", TU32>> >>,
                                         <<"added_count", TU32>> >> >>,
       <<"NewAdoptedStyleSheet", << <<"style_sheet", <<"struct", "VStyleSheet">> >>,
                                    <<"asset_count", TU32>> >> >>,
       <<"ElementScrolled", << <<"node_id", TU32>>, <<"scroll_x_offset", TU32>>,
                               <<"scroll_y_offset", TU32>> >> >>,
       <<"ElementBlurred", << <<"node_id", TU32>> >> >>,
       <<"WindowFocused", << >> >>,
       <<"WindowBlurred", << >> >>,
       <<"StyleSheetRuleInserted", Unmodelled>>,
       <<"StyleSheetRuleDeleted", Unmodelled>>,
       <<"StyleSheetReplaced", Unmodelled>>,
       <<"CanvasChanged", Unmodelled>>,
       <<"DomNodePropertyTextChanged", Unmodelled>>,
       <<"RecordingMetadata", << <<"initial_url", TStr>> >> >>,
       <<"CacheManifest", Unmodelled>>,
       <<"PlaybackConfig", Unmodelled>>,
       <<"AssetReference", << <<"asset_id", TU32>>, <<"url", TStr>>, <<"hash", TStr>>,
                              <<"mime", TOptStr>> >> >>,
       <<"Heartbeat", << >> >> >>

Enums ==
    [ Frame |-> FrameVariants, DomNode |-> DomNodeVariants,
      TextOperationData |-> TextOperationDataVariants,
      AssetFetchError |-> AssetFetchErrorVariants ]

TFrame == <<"enum", "Frame">>

\* The variant index of an enum that no longer declares its retired variant
\* of discriminant 15: the variants after it move down by one.
VariantIndexWithoutRetired(variants, name) ==
    LET i == (CHOOSE j \in 1..Len(variants) : variants[j][1] = name) - 1 IN
    IF i > 15 THEN i - 1 ELSE i

VariantIndex(variants, name) == (CHOOSE i \in 1..Len(variants) : variants[i][1] = name) - 1

(***************************************************************************)
(* bincode serialization (big-endian, fixed-width integers).               *)
(***************************************************************************)
RECURSIVE Enc(_, _)
RECURSIVE EncFields(_, _, _)
RECURSIVE EncSeq(_, _, _)
Enc(ty, v) ==
    CASE ty[1] = "u32" -> U32BE(v)
      [] ty[1] = "u64" -> U32BE(v[1]) \o U32BE(v[2])
      [] ty[1] = "bool" -> IF v THEN <<1>> ELSE <<0>>
      [] ty[1] = "str" -> U64BE(Len(v)) \o v
      [] ty[1] = "bytes" -> U64BE(Len(v)) \o v
      [] ty[1] = "opt" -> IF v = <<>> THEN <<0>> ELSE <<1>> \o Enc(ty[2], v[1])
      [] ty[1] = "vec" -> U64BE(Len(v)) \o EncSeq(ty[2], v, 1)
      [] ty[1] = "pair" -> Enc(ty[2], v[1]) \o Enc(ty[3], v[2])
      [] ty[1] = "struct" -> EncFields(v, Structs[ty[2]], 1)
      [] ty[1] = "enum" ->
            LET i == VariantIndex(Enums[ty[2]], v.type) IN
            U32BE(i) \o EncFields(v, Enums[ty[2]][i + 1][2], 1)

EncFields(v, schema, i) ==
    IF i > Len(schema) THEN <<>>
    ELSE Enc(schema[i][2], v[schema[i][1]]) \o EncFields(v, schema, i + 1)

EncSeq(ty, vs, i) ==
    IF i > Len(vs) THEN <<>> ELSE Enc(ty, vs[i]) \o EncSeq(ty, vs, i + 1)

serialize(frame) == Enc(TFrame, frame)

(***************************************************************************)
(* bincode deserialization from the front of a byte buffer.  A result is   *)
(* [k, v, p]: k = "ok" (value v, p bytes consumed so far), "eof" (the      *)
(* buffer ended inside the value: bincode's Io(UnexpectedEof)), "err" (any *)
(* other bincode error) or "unmodelled" (a value outside the model).       *)
(***************************************************************************)
DecOk(v, p) == [k |-> "ok", v |-> v, p |-> p]

DecFail(kind) == [k |-> kind, v |-> <<>>, p |-> 0]

RdU32(b, p) ==
    IF p + 4 > Len(b) THEN DecFail("eof")
    ELSE IF b[p + 1] >= 128 THEN DecFail("unmodelled")
    ELSE DecOk(b[p + 1] * 16777216 + b[p + 2] * 65536 + b[p + 3] * 256 + b[p + 4], p + 4)

\* A u64 field is the pair of its 32-bit halves <<high, low>>.
RdU64(b, p) ==
    IF p + 8 > Len(b) THEN DecFail("eof")
    ELSE LET hi == RdU32(b, p)
             lo == RdU32(b, p + 4) IN
         IF hi.k # "ok" THEN hi
         ELSE IF lo.k # "ok" THEN lo
         ELSE DecOk(<<hi.v, lo.v>>, p + 8)

\* A u64 length or count.  2^31 or more is "huge": more than any buffer of the
\* model holds; 2^63 or more (an allocation that cannot succeed) is not modelled.
RdLen(b, p) ==
    IF p + 8 > Len(b) THEN DecFail("eof")
    ELSE IF b[p + 1] >= 128 THEN DecFail("unmodelled")
    ELSE IF (\E i \in 1..4 : b[p + i] # 0) \/ b[p + 5] >= 128
         THEN [k |-> "huge", v |-> <<>>, p |-> p + 8]
    ELSE RdU32(b, p + 4)

\* A String or a Vec<u8>: reading a huge length runs into the buffer's end.
RdBytes(b, p, utf8) ==
    LET n == RdLen(b, p) IN
    IF n.k = "huge" THEN DecFail("eof")
    ELSE IF n.k # "ok" THEN n
    ELSE IF n.p + n.v > Len(b) THEN DecFail("eof")
    ELSE LET s == SubSeq(b, n.p + 1, n.p + n.v) IN
         IF utf8 /\ \E i \in 1..Len(s) : s[i] >= 128 THEN DecFail("unmodelled")
         ELSE DecOk(s, n.p + n.v)

RdBool(b, p) ==
    IF p + 1 > Len(b) THEN DecFail("eof")
    ELSE IF b[p + 1] = 0 THEN DecOk(FALSE, p + 1)
    ELSE IF b[p + 1] = 1 THEN DecOk(TRUE, p + 1)
    ELSE DecFail("err")

RECURSIVE Dec(_, _, _)
RECURSIVE DecFields(_, _, _, _, _)
RECURSIVE DecVec(_, _, _, _, _, _)
Dec(ty, b, p) ==
    CASE ty[1] = "u32" -> RdU32(b, p)
      [] ty[1] = "u64" -> RdU64(b, p)
      [] ty[1] = "bool" -> RdBool(b, p)
      [] ty[1] = "str" -> RdBytes(b, p, TRUE)
      [] ty[1] = "bytes" -> RdBytes(b, p, FALSE)
      [] ty[1] = "opt" ->
            IF p + 1 > Len(b) THEN DecFail("eof")
            ELSE IF b[p + 1] = 0 THEN DecOk(<<>>, p + 1)
            ELSE IF b[p + 1] = 1
                 THEN Bind(Dec(ty[2], b, p + 1),
                           LAMBDA r : IF r.k = "ok" THEN DecOk(<<r.v>>, r.p) ELSE r)
            ELSE DecFail("err")
      [] ty[1] = "vec" ->
            LET n == RdLen(b, p) IN
            IF n.k = "huge" THEN DecVec(ty[2], b, n.p, TRUE, 0, <<>>)
            ELSE IF n.k # "ok" THEN n
            ELSE DecVec(ty[2], b, n.p, FALSE, n.v, <<>>)
      [] ty[1] = "pair" ->
            Bind(Dec(ty[2], b, p), LAMBDA x :
                IF x.k # "ok" THEN x
                ELSE Bind(Dec(ty[3], b, x.p), LAMBDA y :
                         IF y.k # "ok" THEN y ELSE DecOk(<<x.v, y.v>>, y.p)))
      [] ty[1] = "struct" -> DecFields(Structs[ty[2]], 1, b, p, <<>>)
      [] ty[1] = "enum" ->
            LET t == RdU32(b, p) IN
            IF t.k # "ok" THEN t
            ELSE IF t.v >= Len(Enums[ty[2]]) THEN DecFail("err")
            ELSE DecFields(Enums[ty[2]][t.v + 1][2], 1, b, t.p,
                           [type |-> Enums[ty[2]][t.v + 1][1]])
      [] OTHER -> DecFail("unmodelled")

DecFields(schema, i, b, p, acc) ==
    IF i > Len(schema) THEN DecOk(acc, p)
    ELSE Bind(Dec(schema[i][2], b, p), LAMBDA r :
             IF r.k # "ok" THEN r
             ELSE DecFields(schema, i + 1, b, r.p, (schema[i][1] :> r.v) @@ acc))

\* `left` more elements; of a huge count, elements until the buffer ends.
DecVec(ty, b, p, huge, left, acc) ==
    IF ~huge /\ left = 0 THEN DecOk(acc, p)
    ELSE Bind(Dec(ty, b, p), LAMBDA r :
             IF r.k # "ok" THEN r
             ELSE DecVec(ty, b, r.p, huge, IF huge THEN 0 ELSE left - 1, Append(acc, r.v)))

deserialize_from(b) == Dec(TFrame, b, 0)

(***************************************************************************)
(* writer.rs: the file header and the FrameWriter.  A sink accepts `room`  *)
(* more bytes and fails the write_all that exceeds it (a Vec never does).  *)
(***************************************************************************)
DCRR_MAGIC == <<68, 67, 82, 82>>

DCRR_VERSION == 1

HEADER_SIZE == 32

\* What the sink still accepts: any number of bytes (a Vec), or `n` more.
Unlimited == [limited |-> FALSE, n |-> 0]

Limited(n) == [limited |-> TRUE, n |-> n]

Fits(bytes, room) == ~room.limited \/ Len(bytes) <= room.n

\* created_at is a u64: the pair of its 32-bit halves.
with_timestamp(created_at) ==
    [magic |-> DCRR_MAGIC, version |-> DCRR_VERSION, created_at |-> created_at,
     reserved |-> Zeros(16)]

FrameWriter_new == [sink |-> <<>>, header_written |-> FALSE]

\* The header with the two halves of created_at in the wrong order.
HeaderBytesSwapped(header) ==
    header.magic \o U32BE(header.version)
        \o U32BE(header.created_at[2]) \o U32BE(header.created_at[1]) \o header.reserved

HeaderBytes(header) ==
    header.magic \o U32BE(header.version)
        \o U32BE(header.created_at[1]) \o U32BE(header.created_at[2]) \o header.reserved

\* A write_header without the header_written guard.
write_header_unguarded(w, header, room) ==
    IF Fits(HeaderBytes(header), room)
    THEN [w |-> [sink |-> w.sink \o HeaderBytes(header), header_written |-> TRUE], res |-> "ok"]
    ELSE [w |-> [w EXCEPT !.sink = @ \o Take(HeaderBytes(header), room.n)], res |-> "err"]

write_header(w, header, room) ==
    IF w.header_written THEN [w |-> w, res |-> "err"]
    ELSE IF Fits(HeaderBytes(header), room)
    THEN [w |-> [sink |-> w.sink \o HeaderBytes(header), header_written |-> TRUE], res |-> "ok"]
    ELSE [w |-> [w EXCEPT !.sink = @ \o Take(HeaderBytes(header), room.n)], res |-> "err"]

write_frame(w, frame, room) ==
    LET encoded == serialize(frame)
        bytes == U32BE(Len(encoded)) \o encoded
    IN IF Fits(bytes, room)
       THEN [w |-> [w EXCEPT !.sink = @ \o bytes], res |-> "ok"]
       ELSE [w |-> [w EXCEPT !.sink = @ \o Take(bytes, room.n)], res |-> "err"]

(***************************************************************************)
(* reader.rs: the FrameReader over a byte source.  A source is the bytes   *)
(* it still holds and how it ends ("eof": read returns Ok(0); "ioerr":     *)
(* read returns Err).                                                      *)
(***************************************************************************)
TEMP_BUF_SIZE == 4096

NoFrame == [type |-> "none"]

FrameReader_new(source, end, expect_header) ==
    [source |-> source, end |-> end, header |-> <<>>, buffer |-> <<>>,
     header_read |-> FALSE, expect_header |-> expect_header]

\* read_exact of the 32 header bytes straight from the source, then the checks.
read_header_if_needed(rd) ==
    IF ~rd.expect_header \/ rd.header_read THEN [rd |-> rd, res |-> "ok"]
    ELSE IF Len(rd.source) < HEADER_SIZE
    THEN [rd |-> [rd EXCEPT !.source = <<>>], res |-> "err"]
    ELSE LET header_buf == Take(rd.source, HEADER_SIZE)
             rest == [rd EXCEPT !.source = Drop(@, HEADER_SIZE)]
             created_at == RdU64(header_buf, 8)
         IN IF SubSeq(header_buf, 1, 4) # DCRR_MAGIC THEN [rd |-> rest, res |-> "err"]
            ELSE IF SubSeq(header_buf, 5, 8) # U32BE(DCRR_VERSION)
            THEN [rd |-> rest, res |-> "err"]
            ELSE IF created_at.k # "ok" THEN [rd |-> rest, res |-> "unmodelled"]
            ELSE [rd |-> [rest EXCEPT
                            !.header = << [magic |-> DCRR_MAGIC, version |-> DCRR_VERSION,
                                           created_at |-> created_at.v,
                                           reserved |-> SubSeq(header_buf, 17, 32)] >>,
                            !.header_read = TRUE],
                  res |-> "ok"]

\* The parse attempt at the top of try_read_frame's loop.
ParseAttempt(buffer) ==
    IF buffer = <<>> THEN [k |-> "more", frame |-> NoFrame, buffer |-> buffer]
    ELSE Bind(deserialize_from(buffer), LAMBDA d :
             CASE d.k = "ok" -> [k |-> "frame", frame |-> d.v, buffer |-> Drop(buffer, d.p)]
               [] d.k = "eof" -> [k |-> "more", frame |-> NoFrame, buffer |-> buffer]
               [] OTHER -> [k |-> d.k, frame |-> NoFrame, buffer |-> buffer])

\* reader.read returned Ok(0), or Err: the end of the source.
ReadAtEnd(rd) ==
    IF rd.end = "ioerr" THEN [res |-> "err", frame |-> NoFrame, rd |-> rd]
    ELSE IF rd.buffer = <<>> THEN [res |-> "none", frame |-> NoFrame, rd |-> rd]
    ELSE Bind(deserialize_from(rd.buffer), LAMBDA d :
             CASE d.k = "ok" ->
                    [res |-> "frame", frame |-> d.v, rd |-> [rd EXCEPT !.buffer = Drop(@, d.p)]]
               [] d.k = "unmodelled" -> [res |-> "unmodelled", frame |-> NoFrame, rd |-> rd]
               [] OTHER -> [res |-> "none", frame |-> NoFrame, rd |-> rd])

ExtendBufferLossy(buffer, chunk) == chunk

ExtendBuffer(buffer, chunk) == buffer \o chunk

\* reader.read returned Ok(n), n > 0.
ReadChunk(rd, n) ==
    [rd EXCEPT !.buffer = ExtendBuffer(@, Take(rd.source, n)), !.source = Drop(@, n)]

\* One whole call, the source delivering `chunk` bytes per read.
RECURSIVE try_read_frame(_, _)
try_read_frame(rd, chunk) ==
    Bind(ParseAttempt(rd.buffer), LAMBDA pa :
        IF pa.k = "frame"
        THEN [res |-> "frame", frame |-> pa.frame, rd |-> [rd EXCEPT !.buffer = pa.buffer]]
        ELSE IF pa.k # "more" THEN [res |-> pa.k, frame |-> NoFrame, rd |-> rd]
        ELSE IF rd.source = <<>> THEN ReadAtEnd(rd)
        ELSE Bind(ReadChunk(rd, Min(chunk, Min(TEMP_BUF_SIZE, Len(rd.source)))),
                  LAMBDA more : try_read_frame(more, chunk)))

\* read_frame: the header if one is expected, then try_read_frame.
read_frame(rd, chunk) ==
    Bind(read_header_if_needed(rd), LAMBDA h :
        IF h.res # "ok" THEN [res |-> h.res, frame |-> NoFrame, rd |-> h.rd]
        ELSE try_read_frame(h.rd, chunk))

\* read_frame called until it returns no frame.
RECURSIVE ReadAll(_, _, _)
ReadAll(rd, chunk, acc) ==
    Bind(read_frame(rd, chunk), LAMBDA r :
        IF r.res = "frame" THEN ReadAll(r.rd, chunk, Append(acc, r.frame))
        ELSE [frames |-> acc, last |-> r.res, rd |-> r.rd])

(***************************************************************************)
(* asset_cache/hash.rs.  A digest is modelled as an injective function of  *)
(* the data, a random id as a string no other call generates (`n` numbers  *)
(* the calls of one ingest).                                               *)
(***************************************************************************)
sha256(data) == <<104>> \o data

generate_random_id(p, n) == <<114, 48 + p, 48 + n>>

(***************************************************************************)
(* asset_cache/local.rs: LocalBinaryStore.  put_atomic writes the data to  *)
(* the temporary file of the hash, then renames it to the final path.      *)
(***************************************************************************)
exists(store, hash) == hash \in store

put_write_temp(tmp, hash) == tmp \cup {hash}

\* rename(temp_path, final_path): fails when the temporary file is gone.
put_rename(store, tmp, hash) ==
    IF hash \in tmp
    THEN [res |-> "ok", store |-> store \cup {hash}, tmp |-> tmp \ {hash}]
    ELSE [res |-> "err", store |-> store, tmp |-> tmp]

(***************************************************************************)
(* asset_cache/sqlite.rs: SqliteMetadataStore.  Table assets has primary   *)
(* key sha256_hash and random_id UNIQUE; INSERT OR REPLACE deletes the     *)
(* rows that conflict with the new one.                                    *)
(***************************************************************************)
\* Metadata that does not carry the size of the data.
AssetMetadataNoSize(sha256_hash, random_id, size, mime_type) ==
    [sha256_hash |-> sha256_hash, random_id |-> random_id, size |-> 0,
     mime_type |-> mime_type]

AssetMetadata(sha256_hash, random_id, size, mime_type) ==
    [sha256_hash |-> sha256_hash, random_id |-> random_id, size |-> size,
     mime_type |-> mime_type]

\* Option<String>: the random_id of the row of the hash.
resolve_hashes(rows, sha) == LET m == {r \in rows : r.sha256_hash = sha} IN
    IF m = {} THEN <<>> ELSE <<(CHOOSE r \in m : TRUE).random_id>>

get_asset_mime_type(rows, random_id) == LET m == {r \in rows : r.random_id = random_id} IN
    IF m = {} THEN <<>> ELSE <<(CHOOSE r \in m : TRUE).mime_type>>

store_asset_metadata(rows, metadata) ==
    {r \in rows : r.sha256_hash # metadata.sha256_hash /\ r.random_id # metadata.random_id}
        \cup {metadata}

\* An upsert that writes the new row over the old one.
register_asset_usage_replace(rows, params) ==
    {r \in rows : ~(r.site_origin = params.site_origin /\ r.url = params.url
                       /\ r.sha256_hash = params.sha256_hash)}
        \cup {[site_origin |-> params.site_origin, url |-> params.url,
                sha256_hash |-> params.sha256_hash, usage_count |-> 1]}

\* site_assets: ON CONFLICT(site_origin, url, sha256_hash) usage_count + 1.
register_asset_usage(rows, params) ==
    LET same(r) == r.site_origin = params.site_origin /\ r.url = params.url
                       /\ r.sha256_hash = params.sha256_hash
        old == {r \in rows : same(r)}
    IN IF old = {} THEN rows \cup {[site_origin |-> params.site_origin, url |-> params.url,
                                    sha256_hash |-> params.sha256_hash, usage_count |-> 1]}
       ELSE {IF same(r) THEN [r EXCEPT !.usage_count = @ + 1] ELSE r : r \in rows}

\* An initial_url that Url::parse accepts, and one that it rejects.
INITIAL_URL == <<117, 47>>

NOT_A_URL == <<110>>

\* extract_origin of the two: Ok(origin) is <<origin>>, Err(InvalidUrl) is <<>>.
extract_origin(url) == IF url = NOT_A_URL THEN <<>> ELSE <<"https://a.example">>

\* A registration that writes the row before it looks at the url.
register_recording_unchecked(rows, recording_id, initial_url) ==
    LET origin == extract_origin(initial_url) IN
    [res |-> IF origin = <<>> THEN "err" ELSE "ok", origin |-> origin,
     rows |-> rows \cup {[recording_id |-> recording_id, site_origin |-> origin,
                           initial_url |-> initial_url]}]

\* INSERT OR REPLACE INTO recordings; Err when the url has no origin.
register_recording(rows, recording_id, initial_url) ==
    LET origin == extract_origin(initial_url) IN
    IF origin = <<>> THEN [res |-> "err", rows |-> rows, origin |-> <<>>]
    ELSE [res |-> "ok", origin |-> origin,
          rows |-> {r \in rows : r.recording_id # recording_id}
                       \cup {[recording_id |-> recording_id, site_origin |-> origin[1],
                               initial_url |-> initial_url]}]

\* get_site_manifest: the rows of site_assets of the origin that have a row in
\* assets, as manifest entries (the order of the entries is not modelled).
get_site_manifest(sa, a, site_origin) ==
    {[url |-> r.url, sha256_hash |-> r.sha256_hash] :
        r \in {x \in sa : x.site_origin = site_origin
                            /\ \E y \in a : y.sha256_hash = x.sha256_hash}}

(***************************************************************************)
(* storage.rs: the recordings directory.  A file name is the sequence of   *)
(* its dot-separated components; an entry names the inode of the ingest    *)
(* that created the file, whose content is that ingest's writer sink.      *)
(***************************************************************************)
generate_filename(p) == << <<"rec1", "rec2", "rec3">>[p], "dcrr" >>

failed_filename_same(filename) == filename

\* format!("{}.failed", filename)
failed_filename(filename) == Append(filename, "failed")

\* Path::extension
extension(name) == IF Len(name) >= 2 THEN <<name[Len(name)]>> ELSE <<>>

\* File::create: a new empty file under the name, replacing one that exists.
file_create(d, name, inode) == {e \in d : e.name # name} \cup {[name |-> name, inode |-> inode]}

\* fs::rename whose result is ignored: nothing happens when `from` is missing.
fs_rename(d, from, to) ==
    IF \E e \in d : e.name = from
    THEN {e \in d : e.name # from /\ e.name # to}
             \cup {[name |-> to, inode |-> e.inode] : e \in {x \in d : x.name = from}}
    ELSE d

\* filepath.exists() / fs::metadata(filepath): the entry of the name, if any.
path_exists(d, name) == \E e \in d : e.name = name

is_recording_active(act, filename) == filename \in act

\* A reader that takes the end of the file for the end of the recording.
tail_at_end_always(act, filename) == TRUE

\* The TailingReader's test for end-of-file, made when the file has not grown.
tail_at_end(act, filename) == ~is_recording_active(act, filename)

\* A listing that takes every entry of the directory.
list_recordings_unfiltered(d, act) ==
    {[filename |-> e.name, is_active |-> e.name \in act] : e \in d}

\* list_recordings: the entries whose extension is "dcrr".
list_recordings(d, act) ==
    {[filename |-> e.name, is_active |-> e.name \in act] :
        e \in {x \in d : extension(x.name) = <<"dcrr">>}}

(***************************************************************************)
(* storage.rs: the frame filter of the ingest.                             *)
(***************************************************************************)
\* A test that sends every empty asset to the server-side fetch.
should_fetch_always(fetch_error) == TRUE

should_fetch_server_side(fetch_error) ==
    CASE fetch_error.type \in {"CORS", "Network"} -> TRUE
      [] fetch_error.type = "Http" -> FALSE
      [] fetch_error.type = "Unknown" -> TRUE
      [] fetch_error.type = "None" -> FALSE

\* A filter that writes Heartbeat frames through.
filter_match_keep_heartbeat(frame) ==
    CASE frame.type = "Asset" -> "asset"
      [] frame.type = "AssetReference" -> "asset_reference"
      [] OTHER -> "pass"

\* A filter that skips Timestamp frames.
filter_match_skip_timestamp(frame) ==
    CASE frame.type = "Asset" -> "asset"
      [] frame.type = "AssetReference" -> "asset_reference"
      [] frame.type \in {"Heartbeat", "Timestamp"} -> "skip"
      [] OTHER -> "pass"

\* The arm of filter_frame_async's match.
filter_match(frame) ==
    CASE frame.type = "Asset" -> "asset"
      [] frame.type = "AssetReference" -> "asset_reference"
      [] frame.type = "Heartbeat" -> "skip"
      [] OTHER -> "pass"

AssetReference(asset_id, url, hash, mime) ==
    [type |-> "AssetReference", asset_id |-> asset_id, url |-> url, hash |-> hash,
     mime |-> mime]

DEFAULT_MIME == <<111>>

(***************************************************************************)
(* The state of the server: two ingests (two connections of the recording  *)
(* handler) over one StorageState.                                         *)
(***************************************************************************)
Ingests == {1, 2}

SITE_ORIGIN == "https://a.example"

IdleIngest ==
    [pc |-> "idle", stream |-> <<>>, reader |-> FrameReader_new(<<>>, "eof", FALSE),
     writer |-> FrameWriter_new, room |-> Unlimited, filename |-> <<>>,
     decoded |-> <<>>, frame |-> NoFrame, out |-> NoFrame, caller |-> "none",
     sha |-> <<>>, data |-> <<>>, mime |-> <<>>, rid |-> <<>>, exists |-> FALSE,
     minted |-> 0, last |-> "none_yet", result |-> "none",
     fault |-> "none", found |-> <<>>, ret |-> <<>>, calls |-> 0, flush |-> "ok",
     dropped |-> <<>>]

\* No playback reader is open.
NoTail ==
    [pc |-> "closed", kind |-> "none", file |-> 0, filename |-> <<>>, offset |-> 0,
     position |-> 0, delivered |-> <<>>, last |-> "none_yet"]

\* generate_manifest was not called since the stores last changed.
NoManifest == [site_origin |-> "", limit |-> <<>>, assets |-> <<>>, called |-> FALSE]

\* No recorder is connected.
NoSocket ==
    [pc |-> "none", frame_buffer |-> <<>>, site_origin |-> <<>>, sent |-> <<>>,
     total_bytes |-> 0, received |-> 0, metadata |-> <<>>, pipe |-> <<>>, pipe_open |-> FALSE,
     spawned |-> FALSE, wait_ended |-> "none", result |-> "none"]

ServerInit ==
    /\ blobs = {}
    /\ tmpFiles = {}
    /\ assets = {}
    /\ siteAssets = {}
    /\ dir = {}
    /\ active = {}
    /\ ing = [p \in Ingests |-> IdleIngest]
    /\ sgReturns = {}
    /\ tail = NoTail
    /\ ws = NoSocket
    /\ recordings = {}
    /\ manifest = NoManifest

(***************************************************************************)
(* The codec scenario: calls on a FrameWriter over a Vec, then a           *)
(* FrameReader opened on a stream and read to its end, the source          *)
(* delivering chunks of any size.                                          *)
(***************************************************************************)
CodecFrames ==
    { [type |-> "WindowFocused"],
      [type |-> "Timestamp", timestamp |-> <<0, 2>>],
      [type |-> "ElementFocused", node_id |-> 7],
      [type |-> "DomAttributeRemoved", node_id |-> 1, attribute_name |-> <<97, 98>>] }

\* Every frame of the model decodes from its own serialization.
CodecFramesRoundTrip ==
    \A f \in CodecFrames :
        LET d == deserialize_from(serialize(f)) IN
        d.k = "ok" /\ d.v = f /\ d.p = Len(serialize(f))

\* Headers handed to write_header: FileHeader's fields are public, so a caller
\* can also pass a header whose magic or version is not the format's.
CodecHeaders ==
    { with_timestamp(<<0, 5>>),
      [with_timestamp(<<1, 5>>) EXCEPT !.reserved = <<9>> \o Zeros(15)],
      [with_timestamp(<<0, 5>>) EXCEPT !.magic = <<68, 67, 82, 83>>],
      [with_timestamp(<<0, 5>>) EXCEPT !.version = 2] }

NoHeader == with_timestamp(<<0, 0>>)

ChunkSizes == {1, 3, TEMP_BUF_SIZE}

IsFrameCall(e) == e.op = "frame" /\ e.res = "ok"

WrittenFrames == [i \in 1..Len(SelectSeq(wLog, IsFrameCall)) |-> SelectSeq(wLog, IsFrameCall)[i].frame]

\* The stream of the same successful calls with each frame as bare bincode
\* (no length prefix), the format the reader's parse attempt decodes.
RECURSIVE BareStream(_)
BareStream(log) ==
    IF log = <<>> THEN <<>>
    ELSE (CASE Head(log).res # "ok" -> <<>>
            [] Head(log).op = "header" -> HeaderBytes(Head(log).header)
            [] OTHER -> serialize(Head(log).frame))
         \o BareStream(Tail(log))

CodecInit ==
    /\ phase = "writing"
    /\ writer = FrameWriter_new
    /\ wLog = <<>>
    /\ reader = FrameReader_new(<<>>, "eof", FALSE)
    /\ rStream = <<>>
    /\ rPc = "idle"
    /\ rOut = <<>>
    /\ rLast = "none_yet"
    /\ rSplit = FALSE
    /\ ServerInit

WriteHeader ==
    /\ phase = "writing"
    /\ Len(wLog) < MaxWriterCalls
    /\ \E h \in CodecHeaders :
         LET r == write_header(writer, h, Unlimited) IN
         /\ writer' = r.w
         /\ wLog' = Append(wLog, [op |-> "header", res |-> r.res, len |-> Len(r.w.sink),
                                  frame |-> NoFrame, header |-> h])
    /\ UNCHANGED <<phase, reader, rStream, rPc, rOut, rLast, rSplit, serverVars>>

WriteFrame ==
    /\ phase = "writing"
    /\ Len(wLog) < MaxWriterCalls
    /\ \E f \in CodecFrames :
         LET r == write_frame(writer, f, Unlimited) IN
         /\ writer' = r.w
         /\ wLog' = Append(wLog, [op |-> "frame", res |-> r.res, len |-> Len(r.w.sink),
                                  frame |-> f, header |-> NoHeader])
    /\ UNCHANGED <<phase, reader, rStream, rPc, rOut, rLast, rSplit, serverVars>>

\* Bytes that are no header of the format, as long as a header.
NotAHeader == HeaderBytes([with_timestamp(<<0, 5>>) EXCEPT !.magic = <<68, 67, 82, 83>>])

\* The reader is opened on what the writer wrote, on the same calls as a
\* bare bincode stream, or on that stream behind 32 bytes that are no header;
\* the source may end up to MaxCut bytes early.  A stream with a header is
\* read with expect_header = true.
OpenReader ==
    /\ phase = "writing"
    /\ \E fmt \in {"written", "bare", "prefixed"}, cut \in 0..MaxCut :
         LET full == CASE fmt = "written" -> writer.sink
                       [] fmt = "bare" -> BareStream(wLog)
                       [] OTHER -> NotAHeader \o BareStream(wLog)
             stream == Take(full, Len(full) - Min(cut, Len(full)))
         IN /\ rStream' = stream
            /\ reader' = FrameReader_new(stream, "eof", writer.header_written)
    /\ phase' = "reading"
    /\ UNCHANGED <<writer, wLog, rPc, rOut, rLast, rSplit, serverVars>>

\* read_frame: the header first, if one is expected and not yet read.
ReadFrameCall ==
    /\ phase \in {"reading", "rereading"}
    /\ rPc = "idle"
    /\ \E h \in {read_header_if_needed(reader)} :
       /\ reader' = h.rd
       /\ rPc' = IF h.res = "ok" THEN "parse" ELSE "done"
       /\ rLast' = IF h.res = "ok" THEN rLast ELSE h.res
    /\ UNCHANGED <<phase, writer, wLog, rStream, rOut, rSplit, serverVars>>

ReaderParse ==
    /\ rPc = "parse"
    /\ \E pa \in {ParseAttempt(reader.buffer)} :
       /\ reader' = [reader EXCEPT !.buffer = pa.buffer]
       /\ rPc' = CASE pa.k = "frame" -> "idle" [] pa.k = "more" -> "read" [] OTHER -> "done"
       /\ rOut' = IF pa.k = "frame" THEN Append(rOut, pa.frame) ELSE rOut
       /\ rLast' = IF pa.k = "more" THEN rLast ELSE pa.k
       /\ rSplit' = (rSplit \/ (pa.k = "more" /\ reader.buffer # <<>>))
    /\ UNCHANGED <<phase, writer, wLog, rStream, serverVars>>

ReaderReadChunk ==
    /\ rPc = "read"
    /\ reader.source # <<>>
    /\ \E n \in ChunkSizes :
         reader' = ReadChunk(reader, Min(n, Min(TEMP_BUF_SIZE, Len(reader.source))))
    /\ rPc' = "parse"
    /\ UNCHANGED <<phase, writer, wLog, rStream, rOut, rLast, rSplit, serverVars>>

ReaderReadEnd ==
    /\ rPc = "read"
    /\ reader.source = <<>>
    /\ \E r \in {ReadAtEnd(reader)} :
       /\ reader' = r.rd
       /\ rPc' = IF r.res = "frame" THEN "idle" ELSE "done"
       /\ rOut' = IF r.res = "frame" THEN Append(rOut, r.frame) ELSE rOut
       /\ rLast' = r.res
    /\ UNCHANGED <<phase, writer, wLog, rStream, rSplit, serverVars>>

\* The caller calls read_frame again on a reader that has returned Err.
ReadAfterError ==
    /\ phase \in {"reading", "rereading"}
    /\ rPc = "done"
    /\ rLast = "err"
    /\ phase' = "rereading"
    /\ rPc' = "idle"
    /\ UNCHANGED <<writer, wLog, reader, rStream, rOut, rLast, rSplit, serverVars>>

CodecNext ==
    \/ WriteHeader
    \/ WriteFrame
    \/ OpenReader
    \/ ReadFrameCall
    \/ ReaderParse
    \/ ReaderReadChunk
    \/ ReaderReadEnd
    \/ ReadAfterError

SpecCodec == CodecInit /\ [][CodecNext]_vars

\* No stream of the model leads the decoder to a value outside the model.
CodecModelled == rLast # "unmodelled"

\* The reader has returned Ok(None): it is read to its end.
ReaderAtNone == rPc = "done" /\ rLast = "none"

\* The reader was opened on the bare bincode stream of the written frames.
OnValidStream == phase = "reading" /\ rStream = BareStream(wLog)

\* The reader was opened, with expect_header = false, on exactly what
\* write_frame calls alone wrote.
OnWrittenFrames ==
    /\ phase = "reading"
    /\ rStream = writer.sink
    /\ ~reader.expect_header
    /\ \A i \in 1..Len(wLog) : IsFrameCall(wLog[i])

\* C7: read_frame returns Ok(None) only when the source is at its end and no
\* bytes of a partial frame are buffered (a source that ends inside a frame
\* gives Err instead).
C7 == ReaderAtNone => (reader.source = <<>> /\ reader.buffer = <<>>)

\* C8: frames written with write_frame and read back with read_frame
\* (expect_header = false) are the same frames in the same order, then Ok(None).
C8 == (OnWrittenFrames /\ rPc = "done") => (rOut = WrittenFrames /\ rLast = "none")

\* The frames and the final result of reading the reader's stream delivered
\* as one chunk.
SingleChunkFeed == ReadAll(FrameReader_new(rStream, "eof", reader.expect_header), Len(rStream) + 1, <<>>)

\* C9: however the source splits the bytes of a stream into chunks, the reader
\* yields the frames (and the final result) it yields when the whole stream is
\* delivered as one chunk.
C9 == (phase = "reading" /\ rPc = "done") => (rOut = SingleChunkFeed.frames /\ rLast = SingleChunkFeed.last)

\* A valid stream of two frames was read to its end with a read that ended
\* inside a frame.
C9Witness ==
    /\ OnValidStream
    /\ rPc = "done"
    /\ rSplit
    /\ Len(rOut) = 2
    /\ rOut = WrittenFrames

\* C10: once write_header has succeeded, every later write_header on the same
\* writer returns an error and writes no bytes to the sink.
C10 ==
    \A i, j \in 1..Len(wLog) :
        (i < j /\ wLog[i].op = "header" /\ wLog[i].res = "ok" /\ wLog[j].op = "header")
            => (wLog[j].res = "err" /\ wLog[j].len = wLog[j - 1].len)

\* write_header was called again after it had succeeded.
C10Witness ==
    \E i, j \in 1..Len(wLog) :
        i < j /\ wLog[i].op = "header" /\ wLog[i].res = "ok" /\ wLog[j].op = "header"

(***************************************************************************)
(* The ingest scenario: each ingest is one call of                         *)
(* save_recording_stream_frames_only_with_site_and_path on a stream of     *)
(* the recorder, with a site_origin; the calls interleave at every await   *)
(* on the stores.                                                          *)
(***************************************************************************)
TS == [type |-> "Timestamp", timestamp |-> <<0, 2>>]

HB == [type |-> "Heartbeat"]

WF == [type |-> "WindowFocused"]

URL == <<117>>

BODY == <<66>>

AssetFrame(buf, fetch_error) ==
    [type |-> "Asset", asset_id |-> 1, url |-> URL, mime |-> <<>>, buf |-> buf,
     fetch_error |-> [type |-> fetch_error]]

REF == AssetReference(1, URL, sha256(BODY), <<>>)

RECURSIVE Bare(_)
Bare(frames) == IF frames = <<>> THEN <<>> ELSE serialize(Head(frames)) \o Bare(Tail(frames))

\* A variant index no Frame has.
BadTag == U32BE(99)

IngestStreams ==
    { Bare(<<TS, HB, WF>>),
      Bare(<<AssetFrame(BODY, "None"), HB, TS>>),
      Bare(<<REF, TS>>),
      Bare(<<AssetFrame(<<>>, "CORS"), TS>>),
      Bare(<<AssetFrame(<<>>, "Http"), AssetFrame(<<>>, "None"), WF>>),
      Bare(<<TS>>) \o BadTag \o Bare(<<WF>>) }

\* What the server-side fetch of a URL may bring: nothing, or a body and its
\* content type.
FetchBodies == {BODY, <<67>>}

FETCH_MIME == <<102>>

\* Room on the recordings disk: any, the header and four bytes more, or none.
Rooms == {Unlimited, Limited(HEADER_SIZE + 4), Limited(0)}

\* What the flush of the output gives (line 298).
Flushes == {"ok", "err"}

\* The inputs of an ingest depart from a whole stream, a source that ends with
\* end-of-stream and an output that takes every write and flush in at most
\* one way.
SingleFault(cut, end, room, flush) ==
    Cardinality({i \in 1..4 : <<cut # 0, end # "eof", room # Unlimited, flush # "ok">>[i]}) <= 1

IngestInit ==
    /\ phase = "ingest"
    /\ writer = FrameWriter_new
    /\ wLog = <<>>
    /\ reader = FrameReader_new(<<>>, "eof", FALSE)
    /\ rStream = <<>>
    /\ rPc = "idle"
    /\ rOut = <<>>
    /\ rLast = "none_yet"
    /\ rSplit = FALSE
    /\ ServerInit

\* The ingest ends in error: the file is renamed and the recording marked
\* completed (lines 277-281, 288-292).
Quarantined(p, rec, result) ==
    /\ dir' = fs_rename(dir, rec.filename, failed_filename(rec.filename))
    /\ active' = active \ {rec.filename}
    /\ ing' = [ing EXCEPT ![p] = [rec EXCEPT !.pc = "done", !.result = result]]

\* save_recording_stream_frames_only_with_site_and_path up to the loop, on a
\* source that holds `stream`, the file being `filename` (lines 231-265).
StartIngestAs(p, filename, stream, end, room, flush) ==
    LET h == write_header(FrameWriter_new, with_timestamp(<<0, 5>>), room)
        rec == [ing[p] EXCEPT !.stream = stream,
                              !.reader = FrameReader_new(stream, end, FALSE),
                              !.writer = h.w, !.room = room, !.filename = filename,
                              !.flush = flush]
    IN /\ active' = active \cup {filename}
       /\ IF h.res = "ok"
          THEN /\ dir' = file_create(dir, filename, p)
               /\ ing' = [ing EXCEPT ![p] = [rec EXCEPT !.pc = "next"]]
          ELSE /\ dir' = fs_rename(file_create(dir, filename, p), filename,
                                   failed_filename(filename))
               /\ ing' = [ing EXCEPT ![p] = [rec EXCEPT !.pc = "done",
                                                        !.result = "err_write"]]

\* The same without a custom_filename: the name is generate_filename() (238).
StartIngest(p, stream, end, room, flush) ==
    StartIngestAs(p, generate_filename(p), stream, end, room, flush)

IngestStart(p) ==
    /\ ing[p].pc = "idle"
    /\ \E s \in IngestStreams, cut \in 0..MaxIngestCut, end \in {"eof", "ioerr"}, room \in Rooms,
          flush \in Flushes :
         /\ SingleFault(cut, end, room, flush)
         /\ StartIngest(p, Take(s, Len(s) - Min(cut, Len(s))), end, room, flush)
    /\ UNCHANGED <<codecVars, tail, ws, recordings, manifest, blobs, tmpFiles, assets, siteAssets, sgReturns>>

\* process_asset_frame up to its first await (lines 462-521).
AssetPlan(rec, asset) ==
    IF asset.buf = <<>> /\ should_fetch_server_side(asset.fetch_error)
    THEN [rec EXCEPT !.pc = "fetch", !.caller = "asset_fetch"]
    ELSE IF asset.buf = <<>> THEN [rec EXCEPT !.pc = "next", !.dropped = Append(@, "empty")]
    ELSE [rec EXCEPT !.pc = "sg_exists", !.caller = "asset", !.sha = sha256(asset.buf),
                     !.data = asset.buf,
                     !.mime = IF asset.mime = <<>> THEN DEFAULT_MIME ELSE asset.mime[1]]

\* frame_reader.next() and the match of filter_frame_async on the frame.
ReaderNext(p) ==
    /\ ing[p].pc = "next"
    /\ \E r \in {read_frame(ing[p].reader, TEMP_BUF_SIZE)} :
       LET rec == [ing[p] EXCEPT !.reader = r.rd, !.last = r.res]
       IN CASE r.res = "frame" ->
                 LET got == [rec EXCEPT !.decoded = Append(@, r.frame), !.frame = r.frame]
                     arm == filter_match(r.frame)
                 IN /\ ing' = [ing EXCEPT ![p] =
                                 CASE arm = "asset" -> AssetPlan(got, r.frame)
                                   [] arm = "asset_reference" ->
                                        [got EXCEPT !.pc = "ref_resolve", !.caller = "ref"]
                                   [] arm = "skip" -> got
                                   [] OTHER -> [got EXCEPT !.pc = "write", !.out = r.frame]]
                    /\ UNCHANGED <<dir, active>>
            [] r.res = "none" /\ rec.flush = "ok" ->
                 /\ ing' = [ing EXCEPT ![p] = [rec EXCEPT !.pc = "done", !.result = "ok"]]
                 /\ active' = active \ {rec.filename}
                 /\ UNCHANGED dir
            [] r.res = "none" /\ rec.flush # "ok" ->
                 /\ ing' = [ing EXCEPT ![p] = [rec EXCEPT !.pc = "done", !.result = "err_flush"]]
                 /\ UNCHANGED <<dir, active>>
            [] OTHER -> Quarantined(p, rec, IF r.res = "err" THEN "err_read" ELSE r.res)
    /\ UNCHANGED <<codecVars, tail, ws, recordings, manifest, blobs, tmpFiles, assets, siteAssets, sgReturns>>

\* A failed fetch that ends the ingest.
FetchFailedFatal(rec) == [rec EXCEPT !.pc = "done", !.result = "err_fetch"]

\* fetch_and_cache_asset returned Err for the request (fetcher.rs 33-44,
\* 58-62): the frame is skipped (lines 505-509; 642-645 and 688-691).
FetchFailed(rec) == [rec EXCEPT !.pc = "next", !.dropped = Append(@, "fetch_failed")]

\* fetch_and_cache_asset up to store_or_get_asset_metadata (fetcher.rs 17-67).
FetchAsset(p) ==
    /\ ing[p].pc = "fetch"
    /\ \/ ing' = [ing EXCEPT ![p] = FetchFailed(ing[p])]
       \/ \E body \in FetchBodies :
            ing' = [ing EXCEPT ![p].pc = "sg_exists", ![p].sha = sha256(body),
                               ![p].data = body, ![p].mime = FETCH_MIME]
    /\ UNCHANGED <<codecVars, tail, ws, recordings, manifest, blobs, tmpFiles, assets, siteAssets, dir, active, sgReturns>>

\* store_or_get_asset_metadata returns `res` (<<random_id>>, or <<>> for an
\* error) to its caller: process_asset_frame
\* (line 525), or fetch_and_cache_asset called by process_asset_frame (475)
\* or by process_asset_reference_frame (600), which compares the hashes.
SgReturn(rec, res) ==
    IF rec.caller = "direct" THEN [rec EXCEPT !.pc = "returned", !.ret = res]
    ELSE IF res = <<>> THEN [rec EXCEPT !.pc = "next", !.dropped = Append(@, "store_failed")]
    ELSE IF rec.caller = "ref_fetch" /\ rec.sha # rec.frame.hash
    THEN [rec EXCEPT !.pc = "next", !.dropped = Append(@, "hash_mismatch")]
    ELSE [rec EXCEPT !.pc = "usage", !.rid = res[1]]

\* A call meets at most the one failure its `fault` names: Err from exists,
\* from resolve_hashes, from put or from store_asset_metadata.
SgExists(p) ==
    /\ ing[p].pc = "sg_exists"
    /\ IF ing[p].fault = "exists"
       THEN /\ ing' = [ing EXCEPT ![p] = SgReturn(ing[p], <<>>)]
            /\ sgReturns' = sgReturns \cup {[sha |-> ing[p].sha, res |-> <<>>]}
       ELSE /\ ing' = [ing EXCEPT ![p].pc = "sg_resolve",
                                  ![p].exists = exists(blobs, ing[p].sha)]
            /\ UNCHANGED sgReturns
    /\ UNCHANGED <<codecVars, tail, ws, recordings, manifest, blobs, tmpFiles, assets, siteAssets, dir, active>>

\* Err from resolve_hashes takes the branches of Ok(None) (lines 221-235, 241).
SgResolve(p) ==
    /\ ing[p].pc = "sg_resolve"
    /\ LET found == IF ing[p].fault = "resolve" THEN <<>>
                    ELSE resolve_hashes(assets, ing[p].sha)
           rec == [ing[p] EXCEPT !.found = found]
           new_random_id == generate_random_id(p, rec.minted)
       IN CASE rec.exists /\ found # <<>> ->
                 /\ ing' = [ing EXCEPT ![p] = SgReturn(rec, found)]
                 /\ sgReturns' = sgReturns \cup {[sha |-> rec.sha, res |-> found]}
            [] rec.exists /\ found = <<>> ->
                 /\ ing' = [ing EXCEPT ![p] = [rec EXCEPT !.pc = "sg_store",
                                                          !.rid = new_random_id,
                                                          !.minted = @ + 1]]
                 /\ UNCHANGED sgReturns
            [] ~rec.exists /\ found # <<>> ->
                 /\ ing' = [ing EXCEPT ![p] = [rec EXCEPT !.pc = "sg_put", !.rid = found[1]]]
                 /\ UNCHANGED sgReturns
            [] OTHER ->
                 /\ ing' = [ing EXCEPT ![p] = [rec EXCEPT !.pc = "sg_put",
                                                          !.rid = new_random_id,
                                                          !.minted = @ + 1]]
                 /\ UNCHANGED sgReturns
    /\ UNCHANGED <<codecVars, tail, ws, recordings, manifest, blobs, tmpFiles, assets, siteAssets, dir, active>>

\* asset_file_store.put: fs::write of the temporary file.
SgPutWrite(p) ==
    /\ ing[p].pc = "sg_put"
    /\ IF ing[p].fault = "put"
       THEN /\ ing' = [ing EXCEPT ![p] = SgReturn(ing[p], <<>>)]
            /\ sgReturns' = sgReturns \cup {[sha |-> ing[p].sha, res |-> <<>>]}
            /\ UNCHANGED tmpFiles
       ELSE /\ tmpFiles' = put_write_temp(tmpFiles, ing[p].sha)
            /\ ing' = [ing EXCEPT ![p].pc = "sg_rename"]
            /\ UNCHANGED sgReturns
    /\ UNCHANGED <<codecVars, tail, ws, recordings, manifest, blobs, assets, siteAssets, dir, active>>

\* asset_file_store.put: the rename; its error is the call's error.
SgPutRename(p) ==
    /\ ing[p].pc = "sg_rename"
    /\ LET r == put_rename(blobs, tmpFiles, ing[p].sha) IN
       /\ blobs' = r.store
       /\ tmpFiles' = r.tmp
       /\ IF r.res = "ok"
          THEN /\ ing' = [ing EXCEPT ![p].pc = "sg_store"]
               /\ UNCHANGED sgReturns
          ELSE /\ ing' = [ing EXCEPT ![p] = SgReturn(ing[p], <<>>)]
               /\ sgReturns' = sgReturns \cup {[sha |-> ing[p].sha, res |-> <<>>]}
    /\ UNCHANGED <<codecVars, tail, ws, recordings, manifest, assets, siteAssets, dir, active>>

SgStoreMetadata(p) ==
    /\ ing[p].pc = "sg_store"
    /\ LET rec == ing[p] IN
       IF rec.fault = "store"
       THEN /\ ing' = [ing EXCEPT ![p] = SgReturn(rec, <<>>)]
            /\ sgReturns' = sgReturns \cup {[sha |-> rec.sha, res |-> <<>>]}
            /\ UNCHANGED assets
       ELSE /\ assets' = store_asset_metadata(assets,
                             AssetMetadata(rec.sha, rec.rid, Len(rec.data), rec.mime))
            /\ ing' = [ing EXCEPT ![p] = SgReturn(rec, <<rec.rid>>)]
            /\ sgReturns' = sgReturns \cup {[sha |-> rec.sha, res |-> <<rec.rid>>]}
    /\ UNCHANGED <<codecVars, tail, ws, recordings, manifest, blobs, tmpFiles, siteAssets, dir, active>>

\* process_asset_reference_frame: resolve_hashes of the client's hash.
RefResolve(p) ==
    /\ ing[p].pc = "ref_resolve"
    /\ LET rec == ing[p]
           found == resolve_hashes(assets, rec.frame.hash)
       IN ing' = [ing EXCEPT ![p] =
                    IF found # <<>>
                    THEN [rec EXCEPT !.pc = "usage", !.rid = found[1], !.sha = rec.frame.hash]
                    ELSE [rec EXCEPT !.pc = "fetch", !.caller = "ref_fetch"]]
    /\ UNCHANGED <<codecVars, tail, ws, recordings, manifest, blobs, tmpFiles, assets, siteAssets, dir, active, sgReturns>>

\* register_asset_usage; process_asset_frame then returns the AssetReference.
RegisterUsage(p) ==
    /\ ing[p].pc = "usage"
    /\ LET rec == ing[p] IN
       /\ siteAssets' = register_asset_usage(siteAssets,
                            [site_origin |-> SITE_ORIGIN, url |-> rec.frame.url,
                             sha256_hash |-> rec.sha])
       /\ ing' = [ing EXCEPT ![p] =
                    IF rec.caller \in {"asset", "asset_fetch"}
                    THEN [rec EXCEPT !.pc = "write",
                                     !.out = AssetReference(rec.frame.asset_id, rec.frame.url,
                                                            rec.rid, rec.frame.mime)]
                    ELSE [rec EXCEPT !.pc = "ref_mime"]]
    /\ UNCHANGED <<codecVars, tail, ws, recordings, manifest, blobs, tmpFiles, assets, dir, active, sgReturns>>

\* process_asset_reference_frame: get_asset_mime_type, then the AssetReference.
RefMime(p) ==
    /\ ing[p].pc = "ref_mime"
    /\ LET rec == ing[p] IN
       ing' = [ing EXCEPT ![p] =
                 [rec EXCEPT !.pc = "write",
                             !.out = AssetReference(rec.frame.asset_id, rec.frame.url, rec.rid,
                                                    get_asset_mime_type(assets, rec.rid))]]
    /\ UNCHANGED <<codecVars, tail, ws, recordings, manifest, blobs, tmpFiles, assets, siteAssets, dir, active, sgReturns>>

\* frame_writer.write_frame of the filtered frame.
WriteFrameOut(p) ==
    /\ ing[p].pc = "write"
    /\ \E w \in {write_frame(ing[p].writer, ing[p].out, ing[p].room)} :
       LET rec == [ing[p] EXCEPT !.writer = w.w]
       IN IF w.res = "ok"
          THEN /\ ing' = [ing EXCEPT ![p] = [rec EXCEPT !.pc = "next"]]
               /\ UNCHANGED <<dir, active>>
          ELSE Quarantined(p, rec, "err_write")
    /\ UNCHANGED <<codecVars, tail, ws, recordings, manifest, blobs, tmpFiles, assets, siteAssets, sgReturns>>

IngestNext ==
    \E p \in Ingests :
        \/ IngestStart(p)
        \/ ReaderNext(p)
        \/ FetchAsset(p)
        \/ SgExists(p)
        \/ SgResolve(p)
        \/ SgPutWrite(p)
        \/ SgPutRename(p)
        \/ SgStoreMetadata(p)
        \/ RefResolve(p)
        \/ RegisterUsage(p)
        \/ RefMime(p)
        \/ WriteFrameOut(p)

SpecIngest == IngestInit /\ [][IngestNext]_vars

\* No ingest of the model meets a value outside the model.
IngestModelled == \A p \in Ingests : ing[p].last # "unmodelled"

(***************************************************************************)
(* What a session file holds: after the 32-byte header, records of a u32   *)
(* length and that many bytes of bincode (write_frame's format).           *)
(***************************************************************************)
RECURSIVE RecordsOf(_)
RecordsOf(b) ==
    Bind(RdU32(b, 0), LAMBDA n :
        IF n.k # "ok" \/ 4 + n.v > Len(b) THEN <<>>
        ELSE Bind(deserialize_from(SubSeq(b, 5, 4 + n.v)), LAMBDA d :
                 (IF d.k = "ok" THEN <<d.v>> ELSE <<>>) \o RecordsOf(Drop(b, 4 + n.v))))

\* The frames persisted in the session file of ingest p.
FileFrames(p) == RecordsOf(Drop(ing[p].writer.sink, HEADER_SIZE))

\* The names under which the session file of ingest p exists.
FileNames(p) == {e.name : e \in {x \in dir : x.inode = p}}

IsAssetFrame(f) == f.type \in {"Asset", "AssetReference"}

IsPlainFrame(f) == ~IsAssetFrame(f)

IsKeptFrame(f) == ~IsAssetFrame(f) /\ f.type # "Heartbeat"

IsPrefix(a, b) == Len(a) <= Len(b) /\ a = SubSeq(b, 1, Len(a))

RECURSIVE IsSubseq(_, _)
IsSubseq(a, b) ==
    IF a = <<>> THEN TRUE
    ELSE IF b = <<>> THEN FALSE
    ELSE IF Head(a) = Head(b) THEN IsSubseq(Tail(a), Tail(b))
    ELSE IsSubseq(a, Tail(b))

\* What a frame of the file has in common with the decoded frame it was made
\* from: the frame itself, or the asset_id of an asset frame.
Origin(f) == IF IsAssetFrame(f) THEN [type |-> "asset", asset_id |-> f.asset_id] ELSE f

Origins(frames) == [i \in 1..Len(frames) |-> Origin(frames[i])]

\* A call of store_or_get_asset_metadata for the hash is under way.
SgInFlight(sha) ==
    \E p \in Ingests :
        ing[p].pc \in {"sg_exists", "sg_resolve", "sg_put", "sg_rename", "sg_store"}
            /\ ing[p].sha = sha

\* C1: all calls of store_or_get_asset_metadata for one content hash return the
\* same random_id, however their steps interleave, and once they have returned
\* the metadata store holds exactly one row for the hash, with that random_id.
C1 ==
    \A c \in sgReturns :
        /\ c.res # <<>>
        /\ \A d \in sgReturns : d.sha = c.sha => d.res = c.res
        /\ ~SgInFlight(c.sha) =>
               {r.random_id : r \in {x \in assets : x.sha256_hash = c.sha}} = {c.res[1]}

\* C2: every AssetReference frame persisted in a session file carries the
\* random_id of a row that is in table assets.
C2 ==
    \A p \in Ingests :
        \A i \in 1..Len(FileFrames(p)) :
            FileFrames(p)[i].type = "AssetReference" =>
                \E r \in assets : r.random_id = FileFrames(p)[i].hash

\* The statement of C3 as the specification words it: the non-asset frames
\* of the output are the non-asset frames decoded from the input.
C3AsStated ==
    \A p \in Ingests :
        ing[p].result = "ok" =>
            /\ SelectSeq(FileFrames(p), IsPlainFrame) = SelectSeq(ing[p].decoded, IsPlainFrame)
            /\ IsSubseq(Origins(FileFrames(p)), Origins(ing[p].decoded))

\* C3: the non-asset frames of the session file are, in order, the decoded
\* non-asset frames other than Heartbeat: a prefix of them while the ingest
\* runs, all of them once it has returned Ok; and the frames of the file are
\* in the order in which their originals were decoded.
C3 ==
    \A p \in Ingests :
        /\ IsPrefix(SelectSeq(FileFrames(p), IsPlainFrame), SelectSeq(ing[p].decoded, IsKeptFrame))
        /\ ing[p].result = "ok" =>
               SelectSeq(FileFrames(p), IsPlainFrame) = SelectSeq(ing[p].decoded, IsKeptFrame)
        /\ IsSubseq(Origins(FileFrames(p)), Origins(ing[p].decoded))

\* An ingest has returned Ok having decoded a Heartbeat between frames that
\* it wrote.
C3Witness ==
    \E p \in Ingests :
        /\ ing[p].result = "ok"
        /\ \E i \in 1..Len(ing[p].decoded) : ing[p].decoded[i].type = "Heartbeat"
        /\ Len(SelectSeq(FileFrames(p), IsPlainFrame)) >= 2

\* C4: no frame persisted in a session file is an Asset or a Heartbeat.
C4 ==
    \A p \in Ingests :
        \A i \in 1..Len(FileFrames(p)) : FileFrames(p)[i].type \notin {"Asset", "Heartbeat"}

\* An ingest has returned Ok having decoded an Asset and a Heartbeat, with an
\* AssetReference in its file.
C4Witness ==
    \E p \in Ingests :
        /\ ing[p].result = "ok"
        /\ \E i \in 1..Len(ing[p].decoded) : ing[p].decoded[i].type = "Heartbeat"
        /\ \E i \in 1..Len(ing[p].decoded) : ing[p].decoded[i].type = "Asset"
        /\ \E i \in 1..Len(FileFrames(p)) : FileFrames(p)[i].type = "AssetReference"

C6 ==
    \A p \in Ingests :
        (ing[p].pc = "done" /\ ing[p].result # "err_write"
            /\ ing[p].reader.end = "eof" /\ ing[p].reader.source = <<>>)
        => IF ing[p].reader.buffer # <<>>
           THEN /\ ing[p].last = "err"
                /\ ing[p].result = "err_read"
                /\ FileNames(p) = {failed_filename(ing[p].filename)}
           ELSE /\ ing[p].result = "ok"
                /\ FileNames(p) = {ing[p].filename}


\* C11: a header, if written at all, precedes every frame: a write_header
\* issued after a successful write_frame is rejected and writes nothing, so
\* the sink never holds header bytes after frame bytes.
C11 ==
    \A i, j \in 1..Len(wLog) :
        (i < j /\ IsFrameCall(wLog[i]) /\ wLog[j].op = "header")
            => (wLog[j].res = "err" /\ wLog[j].len = wLog[j - 1].len)

\* The reader, expecting a header, has made its attempt to read it.
HeaderAttempted ==
    /\ phase = "reading"
    /\ reader.expect_header
    /\ (rPc # "idle" \/ rOut # <<>>)

\* The header is well-formed: the format's magic and version.
ValidHeader(h) == h.magic = DCRR_MAGIC /\ h.version = DCRR_VERSION

\* The reader's stream starts with all the bytes of a header that
\* write_header wrote first.
OnWrittenHeader ==
    /\ wLog # <<>>
    /\ wLog[1].op = "header"
    /\ wLog[1].res = "ok"
    /\ Len(rStream) >= HEADER_SIZE
    /\ SubSeq(rStream, 1, HEADER_SIZE) = SubSeq(writer.sink, 1, HEADER_SIZE)

\* The stream's first four bytes are not the magic, or its version is not 1.
BadHeaderStream ==
    \/ Len(rStream) >= 4 /\ SubSeq(rStream, 1, 4) # DCRR_MAGIC
    \/ Len(rStream) >= 8 /\ SubSeq(rStream, 5, 8) # U32BE(DCRR_VERSION)

\* C12: reading (expect_header = true) a stream that write_header(h) produced
\* gives a header with h's version, created_at and reserved bytes; a stream
\* whose magic is not "DCRR" or whose version is not 1 gives Err and no header.
C12 ==
    HeaderAttempted =>
        /\ (OnWrittenHeader /\ ValidHeader(wLog[1].header)) =>
              /\ reader.header # <<>>
              /\ reader.header[1].version = wLog[1].header.version
              /\ reader.header[1].created_at = wLog[1].header.created_at
              /\ reader.header[1].reserved = wLog[1].header.reserved
        /\ BadHeaderStream =>
              (reader.header = <<>> /\ rPc = "done" /\ rLast = "err" /\ rOut = <<>>)

\* A header with a created_at above 2^32 and a non-zero reserved byte was
\* written and read back.
C12Witness ==
    /\ HeaderAttempted
    /\ OnWrittenHeader
    /\ wLog[1].header.created_at = <<1, 5>>
    /\ reader.header # <<>>
    /\ reader.header[1].reserved[1] = 9


\* The bytes that the i-th writer call appended to the sink.
RecordOfCall(i) ==
    SubSeq(writer.sink, (IF i = 1 THEN 0 ELSE wLog[i - 1].len) + 1, wLog[i].len)

\* C13: in every record L || P that write_frame emits, the u32 prefix L is the
\* byte length of the payload P, and decoding that record's frame with the
\* reader yields the frame and consumes L payload bytes.
C13 ==
    \A i \in 1..Len(wLog) :
        IsFrameCall(wLog[i]) =>
            LET rec == RecordOfCall(i)
                L == RdU32(rec, 0)
                d == deserialize_from(rec)
            IN /\ L.k = "ok"
               /\ L.v = Len(rec) - 4
               /\ Drop(rec, 4) = serialize(wLog[i].frame)
               /\ d.k = "ok"
               /\ d.v = wLog[i].frame
               /\ d.p \in {L.v, L.v + 4}


\* C14: once the reader has returned an error, no later read on the same
\* reader yields a frame (the reader does not resynchronize).
C14 == [][phase = "rereading" => rOut' = rOut]_vars


(***************************************************************************)
(* store_or_get_asset_metadata called on its own: tasks that call it with  *)
(* some bytes, concurrently, each call meeting at most one failing step.   *)
(***************************************************************************)
MaxCacheCalls == 3

CacheBodies == {BODY, <<67>>}

CacheFaults == {"none", "exists", "resolve", "put", "store"}

\* store_or_get_asset_metadata(sha256(data), data, mime, ..) is called.
CacheCall(p) ==
    /\ ing[p].pc = "idle"
    /\ ing[1].calls + ing[2].calls < MaxCacheCalls
    /\ \E data \in CacheBodies, fault \in CacheFaults :
         ing' = [ing EXCEPT ![p] = [@ EXCEPT !.pc = "sg_exists", !.caller = "direct",
                                             !.sha = sha256(data), !.data = data,
                                             !.mime = DEFAULT_MIME, !.fault = fault,
                                             !.found = <<>>, !.ret = <<>>, !.rid = <<>>,
                                             !.exists = FALSE, !.calls = @ + 1]]
    /\ UNCHANGED <<codecVars, tail, ws, recordings, manifest, blobs, tmpFiles, assets, siteAssets, dir, active, sgReturns>>

\* The caller receives the Result of the call.
CacheReturn(p) ==
    /\ ing[p].pc = "returned"
    /\ ing' = [ing EXCEPT ![p].pc = "idle"]
    /\ UNCHANGED <<codecVars, tail, ws, recordings, manifest, blobs, tmpFiles, assets, siteAssets, dir, active, sgReturns>>

CacheNext ==
    \E p \in Ingests :
        \/ CacheCall(p)
        \/ SgExists(p)
        \/ SgResolve(p)
        \/ SgPutWrite(p)
        \/ SgPutRename(p)
        \/ SgStoreMetadata(p)
        \/ CacheReturn(p)

SpecCache == IngestInit /\ [][CacheNext]_vars


\* A step of a call that meets no failure follows the table of the four
\* cases, the cases being what the call's exists and resolve_hashes found.
TableStep(p) ==
    LET rec == ing[p]
        new == ing'[p]
        rows == {r \in assets : r.sha256_hash = rec.sha}
        rowsAfter == {r \in assets' : r.sha256_hash = rec.sha}
    IN (rec.caller = "direct" /\ rec.fault = "none" /\ new # rec) =>
       CASE rec.pc = "sg_resolve" ->
              IF rec.exists /\ rows # {}
              THEN /\ new.pc = "returned"
                   /\ new.ret # <<>>
                   /\ {r.random_id : r \in rows} = {new.ret[1]}
                   /\ UNCHANGED <<assets, blobs, tmpFiles>>
              ELSE /\ new.pc = (IF rec.exists THEN "sg_store" ELSE "sg_put")
                   /\ new.found = (IF rows = {} THEN <<>>
                                   ELSE <<(CHOOSE r \in rows : TRUE).random_id>>)
                   /\ UNCHANGED <<assets, blobs, tmpFiles>>
         [] rec.pc \in {"sg_put", "sg_rename"} ->
              /\ ~rec.exists
              /\ UNCHANGED assets
              /\ new.pc = "sg_store" => rec.sha \in blobs'
         [] rec.pc = "sg_store" ->
              /\ new.pc = "returned"
              /\ new.ret # <<>>
              /\ rec.sha \in blobs
              /\ UNCHANGED blobs
              /\ rowsAfter # {}
              /\ \A r \in rowsAfter : r.size = Len(rec.data) /\ r.random_id = new.ret[1]
              /\ IF rec.found # <<>> THEN new.ret = rec.found
                 ELSE new.ret[1] \notin {r.random_id : r \in assets}
         [] OTHER -> TRUE

\* C15: store_or_get_asset_metadata follows the four-case table on (blob
\* exists, metadata row exists): (yes, yes) returns the row's random_id and
\* changes neither store; (yes, no) mints a random_id, inserts a row with
\* size = len(bytes) and returns it; (no, yes) puts the blob, rewrites the
\* row with the size, keeps and returns the existing random_id; (no, no)
\* mints a random_id, puts the blob, inserts the row and returns it.
C15 == [][\A p \in Ingests : TableStep(p)]_vars

\* A call that found no blob but a row has put the blob and returned the
\* row's random_id.
C15Witness ==
    \E p \in Ingests :
        /\ ing[p].pc = "returned"
        /\ ing[p].fault = "none"
        /\ ~ing[p].exists
        /\ ing[p].found # <<>>
        /\ ing[p].ret = ing[p].found
        /\ ing[p].sha \in blobs


\* Every row of table assets has its blob in the file store.
RowsHaveBlobs == \A r \in assets : exists(blobs, r.sha256_hash)

\* C16: in every state reached by store_or_get_asset_metadata calls alone,
\* failing calls included, every row of table assets has its blob in the file
\* store; and when a call returns Ok(id) for a hash, the blob of the hash
\* exists and the row of the hash has random_id = id.
C16 ==
    /\ RowsHaveBlobs
    /\ \A p \in Ingests :
          (ing[p].pc = "returned" /\ ing[p].ret # <<>>) =>
              /\ exists(blobs, ing[p].sha)
              /\ {r.random_id : r \in {x \in assets : x.sha256_hash = ing[p].sha}}
                     = {ing[p].ret[1]}


\* C17: once table assets has a row for a content hash, the random_id of the
\* hash never changes, whatever calls follow (calls in which resolve_hashes
\* fails included).
C17 ==
    [][\A r \in assets : \A q \in assets' :
          q.sha256_hash = r.sha256_hash => q.random_id = r.random_id]_vars


(***************************************************************************)
(* storage.rs: get_recording_stream and the TailingReader.  The reader     *)
(* holds the open file (its inode: the ingest that wrote it), the path it  *)
(* was opened by, the file offset and its own `position`.  One poll_read   *)
(* is up to three steps: the read of the file, fs::metadata of the path,   *)
(* is_recording_active; the ingest task runs on another thread between     *)
(* them.                                                                   *)
(***************************************************************************)
TailIngests == {1}

\* Bytes one read of the file puts into the ReadBuf: a few, or all there are.
TailChunks == {4, TEMP_BUF_SIZE}

\* The bytes of the file the reader holds open.
TailFile == ing[tail.file].writer.sink

\* get_recording_stream(filename) of a recording that exists: the file is
\* opened and sought to 32; a TailingReader if the recording is active,
\* else the plain file.
GetRecordingStream ==
    /\ tail.pc = "closed"
    /\ \E p \in TailIngests :
         /\ ing[p].filename # <<>>
         /\ path_exists(dir, ing[p].filename)
         /\ tail' = [NoTail EXCEPT !.pc = "poll",
                                   !.kind = IF is_recording_active(active, ing[p].filename)
                                            THEN "tailing" ELSE "plain",
                                   !.file = p, !.filename = ing[p].filename,
                                   !.offset = HEADER_SIZE, !.position = HEADER_SIZE]
    /\ UNCHANGED <<codecVars, ws, recordings, manifest, blobs, tmpFiles, assets, siteAssets, dir, active, ing, sgReturns>>

\* poll_read of the file: data, or nothing at the end of the file.  The
\* plain file's nothing is its end-of-file; the TailingReader goes on to look
\* at the size of the file.
TailRead ==
    /\ tail.pc = "poll"
    /\ LET avail == Drop(TailFile, tail.offset) IN
       IF avail # <<>>
       THEN \E n \in TailChunks :
              LET got == Take(avail, n) IN
              tail' = [tail EXCEPT !.delivered = @ \o got, !.offset = @ + Len(got),
                                   !.position = IF tail.kind = "tailing" THEN @ + Len(got)
                                                ELSE @,
                                   !.last = "data"]
       ELSE tail' = [tail EXCEPT !.pc = IF tail.kind = "tailing" THEN "metadata" ELSE "eof",
                                 !.last = IF tail.kind = "tailing" THEN @ ELSE "eof"]
    /\ UNCHANGED <<codecVars, ws, recordings, manifest, blobs, tmpFiles, assets, siteAssets, dir, active, ing, sgReturns>>

\* fs::metadata(filepath): Err when nothing is at the path; Pending with an
\* immediate wake when the file is longer than `position`.
TailMetadata ==
    /\ tail.pc = "metadata"
    /\ tail' = IF ~path_exists(dir, tail.filename)
               THEN [tail EXCEPT !.pc = "poll", !.last = "err"]
               ELSE IF Len(ing[(CHOOSE e \in dir : e.name = tail.filename).inode].writer.sink)
                          > tail.position
               THEN [tail EXCEPT !.pc = "poll", !.last = "pending"]
               ELSE [tail EXCEPT !.pc = "active_check"]
    /\ UNCHANGED <<codecVars, ws, recordings, manifest, blobs, tmpFiles, assets, siteAssets, dir, active, ing, sgReturns>>

\* is_recording_active(filename): end-of-file when it is not, else Pending
\* and a wake after 100 ms.
TailActiveCheck ==
    /\ tail.pc = "active_check"
    /\ tail' = IF tail_at_end(active, tail.filename)
               THEN [tail EXCEPT !.pc = "eof", !.last = "eof"]
               ELSE [tail EXCEPT !.pc = "poll", !.last = "pending"]
    /\ UNCHANGED <<codecVars, ws, recordings, manifest, blobs, tmpFiles, assets, siteAssets, dir, active, ing, sgReturns>>

TailIngestNext ==
    \E p \in TailIngests :
        \/ IngestStart(p)
        \/ ReaderNext(p)
        \/ FetchAsset(p)
        \/ SgExists(p)
        \/ SgResolve(p)
        \/ SgPutWrite(p)
        \/ SgPutRename(p)
        \/ SgStoreMetadata(p)
        \/ RefResolve(p)
        \/ RegisterUsage(p)
        \/ RefMime(p)
        \/ WriteFrameOut(p)

TailNext ==
    \/ TailIngestNext
    \/ GetRecordingStream
    \/ TailRead
    \/ TailMetadata
    \/ TailActiveCheck

SpecTail == IngestInit /\ [][TailNext]_vars

\* C18: a TailingReader returns end-of-file only when the recording's filename
\* is not in active_recordings; while the recording is active it returns data
\* or Pending.
C18 ==
    (tail.kind = "tailing" /\ tail.last = "eof") => ~is_recording_active(active, tail.filename)

\* A TailingReader has delivered bytes and then end-of-file.
C18Witness ==
    /\ tail.kind = "tailing"
    /\ tail.last = "eof"
    /\ tail.delivered # <<>>

\* C19: when a TailingReader opened on an active recording returns
\* end-of-file, the bytes it has delivered are all the bytes of the session
\* file after the 32-byte header, in order.
C19 ==
    (tail.kind = "tailing" /\ tail.last = "eof") =>
        tail.delivered = Drop(TailFile, HEADER_SIZE)


\* The runtime goes on running the ingest task, and the reader is polled
\* again after each wake (the immediate one, or the one 100 ms later).
SpecTailFair ==
    /\ SpecTail
    /\ WF_vars(TailIngestNext)
    /\ WF_vars(TailRead)
    /\ WF_vars(TailMetadata)
    /\ WF_vars(TailActiveCheck)

\* A TailingReader is open on a recording whose ingest has ended.
TailIngestEnded == tail.kind = "tailing" /\ ing[tail.file].pc = "done"

\* The same, the ingest having returned Ok.
TailIngestCommitted == TailIngestEnded /\ ing[tail.file].result = "ok"

\* C20: once the ingest of the recording has ended, committed or quarantined,
\* a TailingReader that keeps being polled eventually returns end-of-file.
C20 == TailIngestEnded ~> (tail.last = "eof")

\* The reader of a recording whose ingest committed reaches end-of-file.
CommittedTailEnds == TailIngestCommitted ~> (tail.last = "eof")

(***************************************************************************)
(* The ends of an ingest.                                                  *)
(***************************************************************************)
\* An ingest call has returned, with Ok or with an error.
IngestReturned(p) == ing[p].pc = "done"

\* C21: whenever an ingest call has returned, by success or by any error,
\* the tracking name of its recording is not in active_recordings.
C21 ==
    \A p \in Ingests :
        IngestReturned(p) => ~is_recording_active(active, ing[p].filename)

\* C22: an ingest whose write_header, write_frame or flush failed has
\* returned the error, and its file is in the recordings directory under the
\* .failed name only.
C22 ==
    \A p \in Ingests :
        LET rec == ing[p] IN
        rec.result \in {"err_write", "err_flush"} =>
            /\ IngestReturned(p)
            /\ ~path_exists(dir, rec.filename)
            /\ FileNames(p) = {failed_filename(rec.filename)}


(***************************************************************************)
(* The asset frames of an ingest.                                          *)
(***************************************************************************)
\* The ingest has skipped a frame for the reason `why`.
Dropped(p, why) == \E i \in 1..Len(ing[p].dropped) : ing[p].dropped[i] = why

\* The ingest reads all of stream `s` from a source that ends with
\* end-of-stream, and every write and flush of its output succeeds.
CleanIngestOf(p, s) ==
    /\ ing[p].stream = s
    /\ ing[p].reader.end = "eof"
    /\ ing[p].room = Unlimited
    /\ ing[p].flush = "ok"

\* The step is one of ingest p and changes no store, no row, no file and
\* nothing of the output of p.
NoSideEffect(p) ==
    /\ blobs' = blobs
    /\ tmpFiles' = tmpFiles
    /\ assets' = assets
    /\ siteAssets' = siteAssets
    /\ dir' = dir
    /\ active' = active
    /\ ing'[p].writer = ing[p].writer

\* C26: an ingest that met a hash mismatch (an AssetReference whose hash the
\* store did not know and whose url gave other content) has, once returned,
\* returned an error and left its file under the .failed name.
C26 ==
    \A p \in Ingests :
        (Dropped(p, "hash_mismatch") /\ IngestReturned(p)) =>
            /\ ing[p].result # "ok"
            /\ FileNames(p) = {failed_filename(ing[p].filename)}

\* C27: no step of a server-side fetch of process_asset_reference_frame whose
\* content does not have the hash of the frame changes the blob store or
\* table assets.
C27 ==
    [][\A p \in Ingests :
          (/\ ing[p].caller = "ref_fetch"
           /\ ing[p].pc \in {"sg_exists", "sg_resolve", "sg_put", "sg_rename", "sg_store"}
           /\ ing[p].sha # ing[p].frame.hash
           /\ ing'[p] # ing[p])
          => (blobs' = blobs /\ assets' = assets)]_vars

\* An Asset frame with no bytes that the recorder did not fail to fetch, or
\* failed to with an HTTP status.
IsEmptySkip(f) ==
    f.type = "Asset" /\ f.buf = <<>> /\ f.fetch_error.type \in {"Http", "None"}

HTTP_STREAM == Bare(<<AssetFrame(<<>>, "Http"), AssetFrame(<<>>, "None"), WF>>)

\* Ingest p decodes its next frame in this step.
Decodes(p) == ing[p].pc = "next" /\ ing'[p].decoded # ing[p].decoded

\* C28: the step that decodes an Asset frame with empty buf and fetch_error
\* Http or None goes on to the next frame: no server-side fetch, no change of
\* a blob, of a row of assets or site_assets, or of the session file; and an
\* ingest of such frames followed by WindowFocused returns Ok with the file
\* holding WindowFocused alone.
C28 ==
    /\ [][\A p \in Ingests :
             (Decodes(p) /\ IsEmptySkip(ing'[p].frame)) =>
                 (ing'[p].pc = "next" /\ NoSideEffect(p))]_vars
    /\ [](\A p \in Ingests :
             (CleanIngestOf(p, HTTP_STREAM) /\ IngestReturned(p)) =>
                 (ing[p].result = "ok" /\ FileFrames(p) = <<WF>>
                    /\ FileNames(p) = {ing[p].filename}))

C28Witness ==
    \E p \in Ingests :
        /\ CleanIngestOf(p, HTTP_STREAM)
        /\ ing[p].result = "ok"
        /\ ing[p].dropped = <<"empty", "empty">>
        /\ Len(ing[p].decoded) = 3

CORS_STREAM == Bare(<<AssetFrame(<<>>, "CORS"), TS>>)

\* C29: an Asset frame with empty buf goes to the server-side fetch exactly
\* for fetch_error CORS, Network and Unknown; the step in which that fetch
\* fails skips the frame and changes nothing; and the ingest of such a frame
\* followed by Timestamp, the fetch failing, returns Ok with the file holding
\* the Timestamp.
C29 ==
    /\ [](\A t \in {"None", "CORS", "Network", "Http", "Unknown"} :
             should_fetch_server_side([type |-> t]) <=> t \in {"CORS", "Network", "Unknown"})
    /\ [][\A p \in Ingests :
             (/\ ing[p].pc = "fetch"
              /\ ing[p].caller = "asset_fetch"
              /\ ing'[p] # ing[p]
              /\ ing'[p].pc # "sg_exists")
             => (ing'[p].pc = "next" /\ NoSideEffect(p)
                   /\ ing'[p].reader = ing[p].reader)]_vars
    /\ [](\A p \in Ingests :
             (CleanIngestOf(p, CORS_STREAM) /\ Dropped(p, "fetch_failed")
                /\ IngestReturned(p)) =>
                 (ing[p].result = "ok" /\ FileFrames(p) = <<TS>>
                    /\ FileNames(p) = {ing[p].filename}))

C29Witness ==
    \E p \in Ingests :
        /\ CleanIngestOf(p, CORS_STREAM)
        /\ ing[p].result = "ok"
        /\ ing[p].dropped = <<"fetch_failed">>
        /\ FileFrames(p) = <<TS>>

\* The usage_count of tuple k in rows of site_assets; 0 when it has no row.
UsageCount(rows, k) ==
    LET m == {r \in rows : r.site_origin = k.site_origin /\ r.url = k.url
                               /\ r.sha256_hash = k.sha256_hash}
    IN IF m = {} THEN 0 ELSE (CHOOSE r \in m : TRUE).usage_count

UsageKey(r) == [site_origin |-> r.site_origin, url |-> r.url, sha256_hash |-> r.sha256_hash]

\* The tuple that ingest p, at register_asset_usage, registers.
UsageParams(p) ==
    [site_origin |-> SITE_ORIGIN, url |-> ing[p].frame.url, sha256_hash |-> ing[p].sha]

\* C30: no step lowers a usage_count; the step of register_asset_usage
\* raises the count of its tuple by one (from 0, no row, to a row of count 1)
\* and leaves the count of every other tuple; no other step changes a count.
C30 ==
    [][LET keys == {UsageKey(r) : r \in siteAssets \cup siteAssets'} IN
       /\ \A k \in keys : UsageCount(siteAssets', k) >= UsageCount(siteAssets, k)
       /\ \A p \in Ingests :
            (ing[p].pc = "usage" /\ ing'[p] # ing[p]) =>
               /\ UsageCount(siteAssets', UsageParams(p)) =
                      UsageCount(siteAssets, UsageParams(p)) + 1
               /\ \A k \in keys \ {UsageParams(p)} :
                      UsageCount(siteAssets', k) = UsageCount(siteAssets, k)
       /\ (\A p \in Ingests : ~(ing[p].pc = "usage" /\ ing'[p] # ing[p])) =>
              siteAssets' = siteAssets
       /\ \A r, q \in siteAssets' : UsageKey(r) = UsageKey(q) => r = q]_vars

\* Both ingests have registered the same tuple and returned.
C30Witness ==
    /\ \E r \in siteAssets : r.usage_count = 2
    /\ \A p \in Ingests : IngestReturned(p)

(***************************************************************************)
(* recording_handler.rs: handle_websocket_recording with no hooks, no      *)
(* custom filename and no subdir (the handler of server.rs).  The socket   *)
(* gives Binary messages, a Close message or a transport error, or ends;   *)
(* the save task is ingest 1 and its source the read half of the pipe.     *)
(***************************************************************************)
\* The Binary messages one connection carries at most.
MaxMessages == 3

\* RecordingConfig.max_size, in bytes.
max_size == 28

\* The capacity of the pipe between the handler and the save task, in the
\* scale of the model's messages: more than a RecordingMetadata frame, less
\* than that frame and a Timestamp frame.
PIPE_CAPACITY == 16

MD == [type |-> "RecordingMetadata", initial_url |-> INITIAL_URL]

MD_BAD == [type |-> "RecordingMetadata", initial_url |-> NOT_A_URL]

\* What a Binary message of the recorder holds: whole frames, the two halves
\* of a RecordingMetadata frame, two frames, or bytes that are no frame.
WsMessages ==
    { Bare(<<MD>>), Take(Bare(<<MD>>), 6), Drop(Bare(<<MD>>), 6), Bare(<<MD_BAD>>),
      Bare(<<MD, TS>>), Bare(<<TS>>), Bare(<<WF>>), BadTag }

\* The handler returns: the pipe's write half and the task's handle are dropped.
WsReturn(w, result) == [w EXCEPT !.pc = "ended", !.result = result, !.pipe_open = FALSE]

\* on_upgrade: the handler starts on a new socket.
WsConnect ==
    /\ ws.pc = "none"
    /\ ws' = [ws EXCEPT !.pc = "wait_metadata"]
    /\ UNCHANGED <<codecVars, tail, recordings, manifest, blobs, tmpFiles, assets, siteAssets, dir, active,
                   ing, sgReturns>>

\* The first loop on a Binary message (lines 92-211): the first frame of the
\* buffered bytes is looked for; a RecordingMetadata is registered and
\* answered with the manifest, whose send may fail.
WsWaitBinary ==
    /\ ws.pc = "wait_metadata"
    /\ ws.received < MaxMessages
    /\ \E data \in WsMessages, send_ok \in BOOLEAN :
       \E r \in {read_frame(FrameReader_new(ws.frame_buffer \o data, "eof", FALSE),
                            TEMP_BUF_SIZE)} :
       LET got == [ws EXCEPT !.frame_buffer = @ \o data, !.received = @ + 1]
           reg == register_recording(recordings, generate_filename(3), r.frame.initial_url)
       IN IF r.res = "frame" /\ r.frame.type = "RecordingMetadata"
          THEN IF reg.res # "ok"
               THEN /\ ws' = WsReturn([got EXCEPT !.metadata = <<r.frame>>], "register_failed")
                    /\ recordings' = reg.rows
               ELSE /\ recordings' = reg.rows
                    /\ ws' = IF send_ok
                             THEN [got EXCEPT
                                     !.pc = "spawn", !.metadata = <<r.frame>>,
                                     !.site_origin = reg.origin,
                                     !.sent = Append(@,
                                        [type |-> "CacheManifest", site_origin |-> reg.origin[1],
                                         assets |-> get_site_manifest(siteAssets, assets,
                                                                      reg.origin[1])])]
                             ELSE WsReturn([got EXCEPT !.metadata = <<r.frame>>,
                                                       !.site_origin = reg.origin],
                                           "send_failed")
          ELSE /\ send_ok
               /\ ws' = got
               /\ UNCHANGED recordings
    /\ UNCHANGED <<codecVars, tail, manifest, blobs, tmpFiles, assets, siteAssets, dir, active,
                   ing, sgReturns>>

\* The first loop on a Close message or on a transport error (212-243).
WsWaitClosed ==
    /\ ws.pc = "wait_metadata"
    /\ \E how \in {"close", "error"} : ws' = WsReturn([ws EXCEPT !.wait_ended = how], how)
    /\ UNCHANGED <<codecVars, tail, recordings, manifest, blobs, tmpFiles, assets, siteAssets, dir, active,
                   ing, sgReturns>>

\* The first loop when receiver.next() gives None: `while let` ends (246).
WsWaitEnd ==
    /\ ws.pc = "wait_metadata"
    /\ ws' = [ws EXCEPT !.pc = "spawn", !.wait_ended = "end"]
    /\ UNCHANGED <<codecVars, tail, recordings, manifest, blobs, tmpFiles, assets, siteAssets, dir, active,
                   ing, sgReturns>>

\* Lines 248-289: the pipe, the buffered messages written to it with
\* write_all, then the save task spawned.  The pipe is tokio::io::duplex: it
\* holds PIPE_CAPACITY bytes, and a write_all of more waits for a read; the
\* read half is read by the save task alone, which is spawned after the
\* writes, so the handler that has more to write than the pipe holds stays
\* in write_all.
WsSpawn ==
    /\ ws.pc = "spawn"
    /\ ws' = IF Len(ws.frame_buffer) <= PIPE_CAPACITY
             THEN [ws EXCEPT !.pc = "streaming", !.pipe = ws.frame_buffer,
                             !.pipe_open = TRUE, !.spawned = TRUE,
                             !.total_bytes = Len(ws.frame_buffer)]
             ELSE [ws EXCEPT !.pc = "write_buffered",
                             !.pipe = Take(ws.frame_buffer, PIPE_CAPACITY),
                             !.pipe_open = TRUE,
                             !.total_bytes = Len(ws.frame_buffer)]
    /\ UNCHANGED <<codecVars, tail, recordings, manifest, blobs, tmpFiles, assets, siteAssets, dir, active,
                   ing, sgReturns>>

\* The second loop on a Binary message (294-320): the cap, then the pipe,
\* whose write fails once the save task has dropped the read half.
WsStreamBinary ==
    /\ ws.pc = "streaming"
    /\ ws.received < MaxMessages
    /\ \E data \in WsMessages :
       LET got == [ws EXCEPT !.received = @ + 1, !.total_bytes = @ + Len(data)]
       IN IF got.total_bytes > max_size
          THEN /\ ws' = WsReturn(got, "too_large")
               /\ UNCHANGED ing
          ELSE IF ing[1].pc = "done"
          THEN /\ ws' = WsReturn(got, "pipe_error")
               /\ UNCHANGED ing
          ELSE IF ing[1].pc = "idle"
          THEN /\ ws' = [got EXCEPT !.pipe = @ \o data]
               /\ UNCHANGED ing
          ELSE /\ ws' = got
               /\ ing' = [ing EXCEPT ![1].reader.source = @ \o data, ![1].stream = @ \o data]
    /\ UNCHANGED <<codecVars, tail, recordings, manifest, blobs, tmpFiles, assets, siteAssets, dir, active,
                   sgReturns>>

\* The second loop on Close, on an error or on None: the pipe is closed (364).
WsStreamClosed ==
    /\ ws.pc = "streaming"
    /\ ws' = [ws EXCEPT !.pc = "join", !.pipe_open = FALSE]
    /\ UNCHANGED <<codecVars, tail, recordings, manifest, blobs, tmpFiles, assets, siteAssets, dir, active,
                   ing, sgReturns>>

\* save_task.await (367-395).
WsJoin ==
    /\ ws.pc = "join"
    /\ ing[1].pc = "done"
    /\ ws' = WsReturn(ws, IF ing[1].result = "ok" THEN "saved" ELSE "save_failed")
    /\ UNCHANGED <<codecVars, tail, recordings, manifest, blobs, tmpFiles, assets, siteAssets, dir, active,
                   ing, sgReturns>>

\* The save task starts: the ingest on the bytes the pipe holds.
SaveTaskStart ==
    /\ ws.spawned
    /\ ing[1].pc = "idle"
    /\ StartIngest(1, ws.pipe, "eof", Unlimited, "ok")
    /\ ws' = [ws EXCEPT !.pipe = <<>>]
    /\ UNCHANGED <<codecVars, tail, recordings, manifest, blobs, tmpFiles, assets, siteAssets, sgReturns>>

\* frame_reader.next() returns when the pipe holds a frame or bytes that
\* decode to an error, or when the write half is dropped.
PipeReady ==
    \/ ~ws.pipe_open
    \/ read_frame(ing[1].reader, TEMP_BUF_SIZE).res \in {"frame", "err", "unmodelled"}

SaveTaskNext ==
    \/ SaveTaskStart
    \/ PipeReady /\ ReaderNext(1)
    \/ WriteFrameOut(1)

SessionNext ==
    \/ WsConnect
    \/ WsWaitBinary
    \/ WsWaitClosed
    \/ WsWaitEnd
    \/ WsSpawn
    \/ WsStreamBinary
    \/ WsStreamClosed
    \/ WsJoin
    \/ SaveTaskNext

SpecSession == IngestInit /\ [][SessionNext]_vars

\* No session of the model meets a value outside the model.
SessionModelled == ing[1].last # "unmodelled"

\* C23: when the connection ended while the handler waited for the
\* RecordingMetadata frame (by a Close message, a transport error or the end
\* of the message stream), the recordings directory holds no session file.
C23 == ws.wait_ended # "none" => dir = {}

\* The frames of the session file that are not the RecordingMetadata frame.
PersistedNonMetadata ==
    LET frames == FileFrames(1) IN
    {i \in 1..Len(frames) : frames[i].type # "RecordingMetadata"}

\* C24: the server sends at most one CacheManifest frame, only after the
\* RecordingMetadata frame was decoded, and a session file that holds a
\* frame other than RecordingMetadata belongs to a session whose one
\* CacheManifest was sent before.
C24 ==
    /\ Len(ws.sent) <= 1
    /\ ws.sent # <<>> => (ws.metadata # <<>> /\ ws.sent[1].type = "CacheManifest")
    /\ PersistedNonMetadata # {} => Len(ws.sent) = 1

\* C25: when the handler met the byte cap and the save task has returned,
\* the session file is not under its canonical name but under <name>.failed.
C25 ==
    (ws.result = "too_large" /\ IngestReturned(1)) =>
        /\ ing[1].result # "ok"
        /\ FileNames(1) = {failed_filename(ing[1].filename)}

(***************************************************************************)
(* Two sessions of one site that bring the same asset.                     *)
(***************************************************************************)
ASSET_STREAM == Bare(<<AssetFrame(BODY, "None"), HB, TS>>)

\* Both ingests read ASSET_STREAM without a fault and have returned.
BothIngestedAsset ==
    \A p \in Ingests : CleanIngestOf(p, ASSET_STREAM) /\ IngestReturned(p)

\* C31: after two sessions of one site have each processed the Asset frame
\* of the same url and the same non-empty bytes B, table assets holds one row
\* for sha256(B) and the store one blob, site_assets holds one row of
\* (origin, url, sha256(B)) with usage_count 2, and the file of each session
\* holds an AssetReference whose hash is the random_id of that row.
C31 ==
    BothIngestedAsset =>
        /\ Cardinality({r \in assets : r.sha256_hash = sha256(BODY)}) = 1
        /\ blobs = {sha256(BODY)}
        /\ \E u \in siteAssets :
               /\ UsageKey(u) = [site_origin |-> SITE_ORIGIN, url |-> URL,
                                 sha256_hash |-> sha256(BODY)]
               /\ u.usage_count = 2
               /\ \A v \in siteAssets : UsageKey(v) = UsageKey(u) => v = u
        /\ \A p \in Ingests :
               \E i \in 1..Len(FileFrames(p)) :
                   /\ FileFrames(p)[i].type = "AssetReference"
                   /\ \E r \in assets :
                          /\ r.sha256_hash = sha256(BODY)
                          /\ r.random_id = FileFrames(p)[i].hash

(***************************************************************************)
(* asset_cache/manifest.rs and sqlite.rs: the cache manifest of a site.    *)
(* The SELECT of get_site_manifest orders by usage_count DESC, size DESC   *)
(* and names no further column: rows that are equal in both come in any    *)
(* order, and LIMIT keeps the first rows of the order taken.               *)
(***************************************************************************)
DEFAULT_MANIFEST_LIMIT == 200

\* site_assets sa JOIN assets a ON sa.sha256_hash = a.sha256_hash
\* WHERE sa.site_origin = ?1
ManifestJoin(sa, a, site_origin) ==
    {[url |-> x.url, sha256_hash |-> x.sha256_hash, usage_count |-> x.usage_count,
      size |-> y.size] :
        <<x, y>> \in {z \in sa \X a : z[1].site_origin = site_origin
                                       /\ z[2].sha256_hash = z[1].sha256_hash}}

\* ORDER BY sa.usage_count DESC, a.size DESC
OrderBy(x, y) ==
    \/ x.usage_count > y.usage_count
    \/ x.usage_count = y.usage_count /\ x.size >= y.size

\* The orders in which the SELECT may give the rows.
ManifestOrders(rows) ==
    LET n == Cardinality(rows) IN
    {l \in [1..n -> rows] :
        /\ \A i, j \in 1..n : i # j => l[i] # l[j]
        /\ \A i \in 1..n, j \in 1..n : i < j => OrderBy(l[i], l[j])}

ManifestEntry(row) == [url |-> row.url, sha256_hash |-> row.sha256_hash]

\* get_site_manifest with its LIMIT: the lists the query may return.
get_site_manifest_limit(sa, a, site_origin, limit) ==
    {[i \in 1..Min(limit, Len(l)) |-> ManifestEntry(l[i])] :
        l \in ManifestOrders(ManifestJoin(sa, a, site_origin))}

\* limit.unwrap_or(DEFAULT_MANIFEST_LIMIT)
ManifestLimit(limit) == IF limit = <<>> THEN DEFAULT_MANIFEST_LIMIT ELSE limit[1]

generate_manifest(sa, a, site_origin, limit) ==
    {[site_origin |-> site_origin, assets |-> l] :
        l \in get_site_manifest_limit(sa, a, site_origin, ManifestLimit(limit))}

(***************************************************************************)
(* The manifest scenario: assets are stored and their usage registered for *)
(* two sites, and generate_manifest is called on the stores.               *)
(***************************************************************************)
MaxManifestUsage == 3

OTHER_ORIGIN == "https://b.example"

ManifestOrigins == {SITE_ORIGIN, OTHER_ORIGIN}

ManifestUrls == {URL, <<118>>}

\* The contents stored: two of one byte and one of two bytes.
ManifestBodies == <<BODY, <<67>>, <<66, 66>>>>

ManifestLimits == {<<>>, <<1>>, <<2>>}

\* The sum of the usage counts of rows of site_assets.
RECURSIVE UsageSum(_)
UsageSum(rows) ==
    IF rows = {} THEN 0
    ELSE LET r == CHOOSE x \in rows : TRUE IN r.usage_count + UsageSum(rows \ {r})

TotalUsage == UsageSum(siteAssets)

\* store_or_get_asset_metadata of a new content, as one step.
ManifestStoreAsset ==
    /\ \E i \in 1..Len(ManifestBodies) :
         LET data == ManifestBodies[i] IN
         /\ resolve_hashes(assets, sha256(data)) = <<>>
         /\ assets' = store_asset_metadata(assets,
                          AssetMetadata(sha256(data), generate_random_id(1, i), Len(data),
                                        DEFAULT_MIME))
         /\ blobs' = blobs \cup {sha256(data)}
    /\ manifest' = NoManifest
    /\ UNCHANGED <<codecVars, tail, ws, recordings, tmpFiles, siteAssets, dir, active, ing,
                   sgReturns>>

\* register_asset_usage of a stored asset, as process_asset_frame calls it.
ManifestRegisterUsage ==
    /\ TotalUsage < MaxManifestUsage
    /\ \E origin \in ManifestOrigins, url \in ManifestUrls, r \in assets :
         siteAssets' = register_asset_usage(siteAssets,
                           [site_origin |-> origin, url |-> url,
                            sha256_hash |-> r.sha256_hash])
    /\ manifest' = NoManifest
    /\ UNCHANGED <<codecVars, tail, ws, recordings, blobs, tmpFiles, assets, dir, active, ing,
                   sgReturns>>

GenerateManifest ==
    /\ \E origin \in ManifestOrigins, limit \in ManifestLimits :
         \E m \in generate_manifest(siteAssets, assets, origin, limit) :
            manifest' = [site_origin |-> origin, limit |-> limit, assets |-> m.assets,
                         called |-> TRUE]
    /\ UNCHANGED <<codecVars, tail, ws, recordings, blobs, tmpFiles, assets, siteAssets, dir,
                   active, ing, sgReturns>>

ManifestNext ==
    \/ ManifestStoreAsset
    \/ ManifestRegisterUsage
    \/ GenerateManifest

SpecManifest == IngestInit /\ [][ManifestNext]_vars

\* url u is before url v, or equal to it, in the order of their bytes.
RECURSIVE UrlLeq(_, _)
UrlLeq(u, v) ==
    IF u = <<>> THEN TRUE
    ELSE IF v = <<>> THEN FALSE
    ELSE IF Head(u) # Head(v) THEN Head(u) < Head(v)
    ELSE UrlLeq(Tail(u), Tail(v))

\* Row x comes before row y in the order the specification gives: usage_count
\* descending, then size descending, then url.
RanksBefore(x, y) ==
    \/ x.usage_count > y.usage_count
    \/ x.usage_count = y.usage_count /\ x.size > y.size
    \/ x.usage_count = y.usage_count /\ x.size = y.size /\ UrlLeq(x.url, y.url)

\* The joined rows of the site the manifest was generated for, and the row of
\* an entry of the manifest.
ManifestRows == ManifestJoin(siteAssets, assets, manifest.site_origin)

RowOf(e) == CHOOSE r \in ManifestRows : ManifestEntry(r) = e

\* C32: a manifest returned for (origin, limit) on the stores as they are has
\* at most limit entries (200 without a limit), each the (url, hash) of a
\* site_assets row of that origin; its entries are the first rows in the
\* order usage_count descending, size descending, url; and every call on the
\* same stores returns the same list.
C32 ==
    manifest.called =>
        LET l == manifest.assets
            lim == ManifestLimit(manifest.limit)
        IN /\ Len(l) <= lim
           /\ \A i \in 1..Len(l) :
                  \E r \in siteAssets :
                      /\ r.site_origin = manifest.site_origin
                      /\ r.url = l[i].url
                      /\ r.sha256_hash = l[i].sha256_hash
           /\ \A i, j \in 1..Len(l) : i < j => RanksBefore(RowOf(l[i]), RowOf(l[j]))
           /\ \A m \in generate_manifest(siteAssets, assets, manifest.site_origin,
                                         manifest.limit) : m.assets = l

\* The part of C32 that does not depend on the order of equal rows: the
\* bound on the length, the origin of the entries and the two sort keys.
ManifestBoundedAndSorted ==
    manifest.called =>
        LET l == manifest.assets IN
        /\ Len(l) <= ManifestLimit(manifest.limit)
        /\ Len(l) = Min(ManifestLimit(manifest.limit), Cardinality(ManifestRows))
        /\ \A i \in 1..Len(l) : l[i] \in {ManifestEntry(r) : r \in ManifestRows}
        /\ \A i, j \in 1..Len(l) : i < j => OrderBy(RowOf(l[i]), RowOf(l[j]))

(***************************************************************************)
(* The listing of the recordings directory.                                *)
(***************************************************************************)
\* Entry e of the directory is the file of an ingest that quarantined it.
IsQuarantinedFile(e) ==
    \E p \in Ingests :
        /\ e.inode = p
        /\ ing[p].filename # <<>>
        /\ e.name = failed_filename(ing[p].filename)

\* Entry e is the file of an ingest that returned Ok, under its own name.
IsCommittedFile(e) ==
    \E p \in Ingests :
        /\ e.inode = p
        /\ e.name = ing[p].filename
        /\ IngestReturned(p)
        /\ ing[p].result = "ok"

ListedNames == {r.filename : r \in list_recordings(dir, active)}

\* C33: list_recordings returns no quarantined session file (a file renamed
\* to <name>.failed) and returns every committed session file that is in the
\* directory.
C33 ==
    \A e \in dir :
        /\ IsQuarantinedFile(e) => e.name \notin ListedNames
        /\ IsCommittedFile(e) => e.name \in ListedNames

C33Witness ==
    /\ \E e \in dir : IsQuarantinedFile(e)
    /\ \E e \in dir : IsCommittedFile(e) /\ e.name \in ListedNames

\* The handler has decoded a RecordingMetadata frame whose initial_url does
\* not parse.
InvalidUrlMetadata ==
    /\ ws.metadata # <<>>
    /\ extract_origin(ws.metadata[1].initial_url) = <<>>

\* C34: a RecordingMetadata frame whose initial_url cannot be parsed ends the
\* session at register_recording: the handler returns on its error, table
\* recordings has no row, nothing was sent, no save task was started and the
\* recordings directory has no file.
C34 ==
    InvalidUrlMetadata =>
        /\ ws.pc = "ended"
        /\ ws.result = "register_failed"
        /\ recordings = {}
        /\ ws.sent = <<>>
        /\ ~ws.spawned
        /\ ing[1].pc = "idle"
        /\ dir = {}

C34Witness == InvalidUrlMetadata /\ ws.result = "register_failed"

(***************************************************************************)
(* storage.rs: save_recording_stream_with_site, the ingest of a source     *)
(* that begins with a file header.  Its loop is the loop of the ingest of  *)
(* bare frames; it differs up to the loop: it reads the header of the      *)
(* source and writes that header to the file.                              *)
(***************************************************************************)
SAVE_HEADER == with_timestamp(<<0, 7>>)

\* The bytes FrameWriter gives for the frames: each with its length before it.
RECURSIVE Written(_)
Written(frames) ==
    IF frames = <<>> THEN <<>>
    ELSE write_frame(FrameWriter_new, Head(frames), Unlimited).w.sink \o Written(Tail(frames))

\* Frames that are no Asset, AssetReference or Heartbeat.
PlainFrames == <<TS, WF>>

\* The sources: a header and frames as the reader takes them, a header and
\* the same frames as the writer gives them, sources with asset frames, and
\* a source whose magic is wrong.
SaveStreams ==
    { HeaderBytes(SAVE_HEADER) \o Bare(PlainFrames),
      HeaderBytes(SAVE_HEADER) \o Written(PlainFrames),
      HeaderBytes(SAVE_HEADER) \o Bare(<<AssetFrame(BODY, "None"), HB, TS>>),
      HeaderBytes(SAVE_HEADER) \o Bare(<<REF, AssetFrame(<<>>, "CORS"), WF>>),
      Zeros(HEADER_SIZE) \o Bare(PlainFrames) }

\* save_recording_stream_with_site up to the loop (lines 322-355).
SaveStreamStart(p) ==
    /\ ing[p].pc = "idle"
    /\ \E s \in SaveStreams, cut \in 0..MaxIngestCut, end \in {"eof", "ioerr"}, room \in Rooms,
          flush \in Flushes :
         /\ SingleFault(cut, end, room, flush)
         /\ LET stream == Take(s, Len(s) - Min(cut, Len(s)))
                filename == generate_filename(p)
                created == file_create(dir, filename, p)
                h == read_header_if_needed(FrameReader_new(stream, end, TRUE))
                w == IF h.res = "ok" THEN write_header(FrameWriter_new, h.rd.header[1], room)
                     ELSE [w |-> FrameWriter_new, res |-> "none"]
                rec == [ing[p] EXCEPT !.stream = stream, !.reader = h.rd, !.writer = w.w,
                                      !.room = room, !.filename = filename, !.flush = flush]
            IN /\ active' = active \cup {filename}
               /\ IF h.res = "ok" /\ w.res = "ok"
                  THEN /\ dir' = created
                       /\ ing' = [ing EXCEPT ![p] = [rec EXCEPT !.pc = "next"]]
                  ELSE /\ dir' = fs_rename(created, filename, failed_filename(filename))
                       /\ ing' = [ing EXCEPT ![p] =
                                    [rec EXCEPT !.pc = "done",
                                                !.result = IF h.res = "ok" THEN "err_write"
                                                           ELSE "err_header"]]
    /\ UNCHANGED <<codecVars, tail, ws, recordings, manifest, blobs, tmpFiles, assets,
                   siteAssets, sgReturns>>

\* One call of save_recording_stream_with_site.
SaveNext ==
    \/ SaveStreamStart(1)
    \/ ReaderNext(1)
    \/ FetchAsset(1)
    \/ SgExists(1)
    \/ SgResolve(1)
    \/ SgPutWrite(1)
    \/ SgPutRename(1)
    \/ SgStoreMetadata(1)
    \/ RefResolve(1)
    \/ RegisterUsage(1)
    \/ RefMime(1)
    \/ WriteFrameOut(1)

SpecSave == IngestInit /\ [][SaveNext]_vars

\* The source of ingest p is a header and frames that are no Asset,
\* AssetReference or Heartbeat, in the encoding the reader takes or in the
\* encoding the writer gives; it is read to its end and no write fails.
PlainInput(p) ==
    /\ ing[p].stream \in {HeaderBytes(SAVE_HEADER) \o Bare(PlainFrames),
                          HeaderBytes(SAVE_HEADER) \o Written(PlainFrames)}
    /\ CleanIngestOf(p, ing[p].stream)

\* C35: save_recording_stream, given a valid source with a header and without
\* Asset, AssetReference and Heartbeat frames, returns Ok and leaves a
\* session file whose bytes are the bytes of the source.
C35 ==
    \A p \in Ingests :
        (PlainInput(p) /\ IngestReturned(p)) =>
            /\ ing[p].result = "ok"
            /\ ing[p].writer.sink = ing[p].stream

\* What does hold for the source in the encoding the reader takes: the ingest
\* returns Ok, the header of the file is the header of the source and the
\* frames of the file are the frames of the source.
SavePreservesHeaderAndFrames ==
    \A p \in Ingests :
        (PlainInput(p) /\ IngestReturned(p)
            /\ ing[p].stream = HeaderBytes(SAVE_HEADER) \o Bare(PlainFrames)) =>
            /\ ing[p].result = "ok"
            /\ Take(ing[p].writer.sink, HEADER_SIZE) = HeaderBytes(SAVE_HEADER)
            /\ FileFrames(p) = PlainFrames

(***************************************************************************)
(* The tags of the Frame variants.  A frame of every variant that frame.rs *)
(* declares is written with write_frame, and the record's bytes after the  *)
(* length are decoded.                                                     *)
(***************************************************************************)
MaxSeed == 2

\* The variants frame.rs declares: the first 23 of FrameVariants.
DECLARED_VARIANTS == 23

\* A value of type ty, made from a number: the number itself, a string of
\* that length, and smaller values inside options, vectors and enums.
RECURSIVE Sample(_, _)
SampleFields(schema, seed) ==
    [n \in {schema[i][1] : i \in 1..Len(schema)} |->
        Sample(schema[CHOOSE i \in 1..Len(schema) : schema[i][1] = n][2], seed)]

Sample(ty, seed) ==
    CASE ty[1] = "u32" -> seed
      [] ty[1] = "u64" -> <<0, seed>>
      [] ty[1] = "bool" -> seed % 2 = 1
      [] ty[1] \in {"str", "bytes"} -> [i \in 1..seed |-> 97]
      [] ty[1] = "opt" -> IF seed = 0 THEN <<>> ELSE <<Sample(ty[2], seed - 1)>>
      [] ty[1] = "vec" -> IF seed = 0 THEN <<>> ELSE <<Sample(ty[2], seed - 1)>>
      [] ty[1] = "pair" -> <<Sample(ty[2], seed), Sample(ty[3], seed)>>
      [] ty[1] = "struct" -> SampleFields(Structs[ty[2]], seed)
      [] ty[1] = "enum" ->
            LET variant == Enums[ty[2]][(seed % Len(Enums[ty[2]])) + 1] IN
            SampleFields(variant[2], IF seed = 0 THEN 0 ELSE seed - 1)
                @@ [type |-> variant[1]]

\* A frame of the variant at position i.
SampleFrame(i, seed) ==
    SampleFields(FrameVariants[i][2], seed) @@ [type |-> FrameVariants[i][1]]

TagInit ==
    /\ phase = "tags"
    /\ writer = FrameWriter_new
    /\ wLog = <<>>
    /\ reader = FrameReader_new(<<>>, "eof", FALSE)
    /\ rStream = <<>>
    /\ rPc = "idle"
    /\ rOut = <<>>
    /\ rLast = "none_yet"
    /\ rSplit = FALSE
    /\ ServerInit

\* write_frame on a new writer.
TagWrite ==
    /\ phase = "tags"
    /\ wLog = <<>>
    /\ \E i \in 1..DECLARED_VARIANTS, seed \in 0..MaxSeed :
       \E r \in {write_frame(FrameWriter_new, SampleFrame(i, seed), Unlimited)} :
         /\ writer' = r.w
         /\ wLog' = <<[op |-> "frame", res |-> r.res, len |-> Len(r.w.sink),
                       frame |-> SampleFrame(i, seed)]>>
    /\ UNCHANGED <<phase, reader, rStream, rPc, rOut, rLast, rSplit, serverVars>>

\* deserialize_from on the bytes of the record after its length.
TagRead ==
    /\ phase = "tags"
    /\ wLog # <<>>
    /\ rPc = "idle"
    /\ \E d \in {deserialize_from(Drop(writer.sink, 4))} :
         /\ rPc' = "done"
         /\ rLast' = IF d.k = "ok" THEN "frame" ELSE d.k
         /\ rOut' = IF d.k = "ok" THEN <<d.v>> ELSE <<>>
    /\ UNCHANGED <<phase, writer, wLog, reader, rStream, rSplit, serverVars>>

TagNext == TagWrite \/ TagRead

SpecTags == TagInit /\ [][TagNext]_vars

\* The canonical ids of the variants, as the specification lists them.
CanonicalId ==
    [Timestamp |-> 0, Keyframe |-> 1, ViewportResized |-> 2, ScrollOffsetChanged |-> 3,
     MouseMoved |-> 4, MouseClicked |-> 5, KeyPressed |-> 6, ElementFocused |-> 7,
     TextSelectionChanged |-> 8, DomNodeAdded |-> 9, DomNodeRemoved |-> 10,
     DomAttributeChanged |-> 11, DomAttributeRemoved |-> 12, DomTextChanged |-> 13,
     DomNodeResized |-> 14, DomNodePropertyChanged |-> 15, Asset |-> 16,
     AdoptedStyleSheetsChanged |-> 17, NewAdoptedStyleSheet |-> 18, ElementScrolled |-> 19,
     ElementBlurred |-> 20, WindowFocused |-> 21, WindowBlurred |-> 22,
     StyleSheetRuleInserted |-> 23, StyleSheetRuleDeleted |-> 24, StyleSheetReplaced |-> 25,
     CanvasChanged |-> 26, DomNodePropertyTextChanged |-> 27]

\* The tag of the record written: the four bytes after its length.
WrittenTag == SubSeq(writer.sink, 5, 8)

PutReturns(p) ==
    /\ ing[p].pc = "sg_rename"
    /\ ing[p].fault = "none"
    /\ ing'[p].pc # "sg_rename"

\* C37: put calls for one hash and the same data, in any interleaving, all
\* return Ok (the caller goes on to store_asset_metadata), and where the
\* store says the hash exists, the blob of the hash is there.
C37 ==
    [][\A p \in Ingests :
          PutReturns(p) =>
              /\ ing'[p].pc = "sg_store"
              /\ exists(blobs', ing[p].sha)]_vars

(***************************************************************************)
(* Ingests that are given their file name: custom_filename of the          *)
(* RecordingConfig, or the name the on_start hook returns.                 *)
(***************************************************************************)
\* The names a caller may give: none, or the name of the first recording.
CustomFilenames == {<<>>, <<generate_filename(1)>>}

CustomStreams == {Bare(<<TS, WF>>), Bare(<<TS>>) \o BadTag}

\* custom_filename.unwrap_or_else(|| self.generate_filename())
CustomStart(p) ==
    /\ ing[p].pc = "idle"
    /\ \E custom_filename \in CustomFilenames, s \in CustomStreams :
         StartIngestAs(p, IF custom_filename = <<>> THEN generate_filename(p)
                          ELSE custom_filename[1],
                       s, "eof", Unlimited, "ok")
    /\ UNCHANGED <<codecVars, tail, ws, recordings, manifest, blobs, tmpFiles, assets,
                   siteAssets, sgReturns>>

CustomNext ==
    \E p \in Ingests :
        \/ CustomStart(p)
        \/ ReaderNext(p)
        \/ WriteFrameOut(p)

SpecCustom == IngestInit /\ [][CustomNext]_vars

\* The bytes of the file of entry e of the directory, now and after the step.
FileBytes(e) == ing[e.inode].writer.sink

FileBytesAfter(e) == ing'[e.inode].writer.sink

\* C38: no step of an ingest truncates or rewrites a committed session file:
\* after the step the file is in the directory under its name and its bytes
\* begin with the bytes it had, the 32 bytes of its header among them.
C38 ==
    [][\A e \in dir :
          IsCommittedFile(e) =>
              \E f \in dir' :
                  /\ f.name = e.name
                  /\ IsPrefix(FileBytes(e), FileBytesAfter(f))]_vars

\* The same for ingests that were given no name: generate_filename gives every
\* ingest a name of its own.
GeneratedNamesKeepFiles ==
    [][(\A p \in Ingests : ing'[p].filename \in {<<>>, generate_filename(p)}) =>
          \A e \in dir :
              IsCommittedFile(e) =>
                  \E f \in dir' :
                      /\ f.name = e.name
                      /\ IsPrefix(FileBytes(e), FileBytesAfter(f))]_vars

(***************************************************************************)
(* The names of a WebSocket recording session.                             *)
(***************************************************************************)
\* The session has committed: its save task returned Ok and the file is in
\* the directory under the task's name.
SessionCommitted ==
    /\ ws.spawned
    /\ IngestReturned(1)
    /\ ing[1].result = "ok"
    /\ path_exists(dir, ing[1].filename)

\* C39: when a WebSocket recording session has committed, the recording_id of
\* its row of table recordings is the file name under which its session file
\* is saved and listed.
C39 ==
    SessionCommitted =>
        \A r \in recordings :
            /\ r.recording_id = ing[1].filename
            /\ r.recording_id \in {l.filename : l \in list_recordings(dir, active)}

(***************************************************************************)
(* Progress of the handler from the decoded RecordingMetadata to its       *)
(* message loop.  The runtime runs a task that can take a step: the        *)
(* handler's writes to the pipe and the steps of the save task are weakly  *)
(* fair; nothing is assumed of the messages of the recorder.               *)
(***************************************************************************)
SpecSessionFair ==
    /\ SpecSession
    /\ WF_vars(WsSpawn)
    /\ WF_vars(SaveTaskNext)

\* The handler has decoded RecordingMetadata, registered the recording, sent
\* the manifest and left the first loop.
MetadataDone == ws.pc = "spawn" /\ ws.metadata # <<>>

\* The save task has started on a source that begins with the buffered bytes.
BufferHandedOver ==
    /\ ws.spawned
    /\ ing[1].pc # "idle"
    /\ IsPrefix(ws.frame_buffer, ing[1].stream)

\* C40: once RecordingMetadata is decoded, the handler reaches its message
\* loop with the save task spawned, and the bytes buffered while it waited
\* for the metadata reach the save task, whatever their number.
C40 == MetadataDone ~> BufferHandedOver

\* The same for buffered bytes that fit the pipe.
SmallBufferHandedOver ==
    (MetadataDone /\ Len(ws.frame_buffer) <= PIPE_CAPACITY) ~> BufferHandedOver

=============================================================================
